---- MODULE Spec2Model ----
(***************************************************************************)
(* The sound manager of apps/openmw/mwsound (soundmanagerimp.cpp,          *)
(* sound.hpp): the buffer registry with its eviction pool, the work queue  *)
(* with one worker thread, the three ledgers of pending requests, the      *)
(* lifecycle of sound and stream instances, and the frame update.          *)
(*                                                                         *)
(* The frame thread and the worker thread interleave at the granularity of *)
(* the actions below.  A blocking waitTillDone is the guard of the action  *)
(* that calls it.  A frame handler is an operator from a state record to a *)
(* state record, so that handlers compose as the calls in the source do.   *)
(***************************************************************************)
EXTENDS Integers, Sequences, FiniteSets, TLC

----------------------------------------------------------------------------
(* Bounds of the model *)

MaxSounds == 2
MaxLoading == 2
MaxItems == 2
MaxStreams == 2
MaxVoices == 2
MaxMusic == 2
MaxPool == 3
\* BlockerType::MaxCount, the number of blockers that can pause sounds
MaxCount == 2
\* how often the player moves or the water changes, and how often an entity
\* changes its Ptr
MaxMoves == 3

----------------------------------------------------------------------------
(* Program constants, in model units *)

\* 200 ms, in clock ticks of 200 ms
sAsyncOperationTimeout == 1
\* 1/30 s, in units of 1/60 s
sMinUpdateInterval == 2
\* "buffer cache max" and "buffer cache min", in units of one buffer size step
mBufferCacheMax == 3
mBufferCacheMin == 2

\* a volume factor of 1.0, in units of 1/60, and a fade of 1.0 s, in units
\* of 1/60 s
FullVolume == 60
MusicFadeOut == 60

\* nullptr for an instance pointer
NoSound == 0

\* the empty MWWorld::ConstPtr, the entities of the world in the order of
\* std::map<ConstPtr, ...>, the player and the cell of each entity
NoPtr == "none"
Entities == {"e1"}
Ptrs == {NoPtr} \cup Entities
\* the Ptr an entity has after it has moved to another cell, and every key
\* of the tables
NewPtr == "e2"
AllPtrs == Ptrs \cup {NewPtr}
PtrOrder == <<NoPtr, "e1", "e2">>
getPlayer == "player"
Cells == {"c1", "c2"}
NoCell == ""
getCell(ptr) == "c1"

\* where an entity can stand on the line through the listener: on the 2000
\* radius, a unit past it, and at 3000
Positions == {2000, 2001, 3000}

\* the squared distance of two positions on a line through the listener
length2(a, b) == (a - b) * (a - b)

\* the sound records of the ESM store, and an identifier the store lacks
Store == {"a", "b"}
SoundIds == Store \cup {"x"}
\* identifiers as callers spell them
RequestIds == {"a", "B"}

\* a missing map entry and a null Sound_Buffer pointer
Absent == "absent"
NullBuf == "null"

\* Sound_Buffer::mVolume, mMinDist and mMaxDist, as the sound record of the
\* store gives them
mVolume(sfx) == 1
mMinDist(sfx) == 5
mMaxDist(sfx) == 2000

\* byte size the backend reports for a loaded buffer
BufSize(id) == IF id = "a" THEN 2 ELSE 2

LowerCase(s) == CASE s = "A" -> "a" [] s = "B" -> "b" [] OTHER -> s

\* the sound types of Type::Mask (three of its five), a play-mode flag
\* outside the mask, and the blockers 0 .. BlockerType::MaxCount - 1
TypeMask == {"Sfx", "Voice", "Music"}
Flags == TypeMask \cup {"Loop"}
Blockers == 0..(MaxCount - 1)

----------------------------------------------------------------------------
VARIABLES
    mInitialized,         \* mOutput->isInitialized()
    mPlaybackPaused,
    bDevicePaused,        \* the backend's device is paused
    mPausedSoundTypes,    \* blocker -> the sound types it has paused
    bPausedTypes,         \* the sound types paused at the backend
    mBufferNameMap,       \* identifiers with a registered Sound_Buffer
    mHandle,              \* Sound_Buffer::mHandle is non-null
    mUses,                \* Sound_Buffer::mUses
    mBufferCacheSize,
    mUnusedBuffers,       \* the eviction pool; its front is the first element
    mLoadedSoundBuffers,  \* result cache of the load tasks
    mLoadingSounds,       \* ledger of pending ambient sounds
    mActiveSounds,        \* entity -> list of <<instance, buffer>>
    snd,                  \* the Sound objects of the pool mSounds
    bPlaying,             \* the backend's isSoundPlaying
    mUnderwaterSound,
    mNearWaterSound,
    mLastCell,            \* the player's cell at the last updateWaterSound
    mListenerUnderwater,
    strm,                 \* the Stream objects of the pool mStreams
    bStreamPlaying,       \* the backend's isStreamPlaying
    mWaitingVoice,        \* ledger of say(ptr, file) requests
    mActiveWaitingVoice,  \* ledger of voice requests the frame has taken up
    mActiveSaySounds,     \* entity -> voice stream
    mVoiceDecoders,       \* result cache of the voice tasks
    mWaitingMusic,        \* ledger of music requests
    mMusicDecoders,       \* result cache of the music tasks
    mMusic,
    mNextMusic,
    mLastPlayedMusic,
    mCurrentPlaylist,
    mMusicToPlay,         \* playlist -> indices of the tracks not yet drawn
    mActiveTracks,        \* sorted by pointer
    wItems,               \* the work items
    workQueue,            \* work items the worker has not taken yet
    objPos,               \* ptr.getRefData().getPosition() of each entity
    mListenerPos,
    world,                \* the player's cell, what the water updater
                          \* reports there, what it reported last and how
                          \* often the two have changed
    mTimePassed,
    pc,                   \* position of the frame thread
    fault,                \* undefined behaviour the run has met, "" if none
    out                   \* backend calls and log lines of the last action

vars == <<mInitialized, mPlaybackPaused, bDevicePaused, mPausedSoundTypes,
          bPausedTypes, mBufferNameMap, mHandle, mUses,
          mBufferCacheSize, mUnusedBuffers, mLoadedSoundBuffers,
          mLoadingSounds, mActiveSounds, snd, bPlaying, mUnderwaterSound,
          mNearWaterSound, mLastCell, mListenerUnderwater, strm,
          bStreamPlaying,
          mWaitingVoice, mActiveWaitingVoice, mActiveSaySounds,
          mVoiceDecoders, mWaitingMusic, mMusicDecoders, mMusic,
          mNextMusic, mLastPlayedMusic, mCurrentPlaylist, mMusicToPlay,
          mActiveTracks, wItems, workQueue, objPos, mListenerPos, world,
          mTimePassed, pc, fault, out>>

Sounds == 1..MaxSounds
Streams == 1..MaxStreams
Items == 1..MaxItems

FreeSound == [state |-> "Free", is3D |-> FALSE, cull |-> FALSE,
              mVolumeFactor |-> FullVolume, mFadeOutTime |-> 0,
              mSfxVolume |-> 0, mMinDistance |-> 0, mMaxDistance |-> 0,
              bGain |-> 0]
FreeStream == [state |-> "Free", mVolumeFactor |-> FullVolume,
               mFadeOutTime |-> 0]
FreeItem == [status |-> "free", aborted |-> FALSE, kind |-> "none", arg |-> ""]

\* the state as one record, for the handlers; out starts empty
S == [mInitialized |-> mInitialized, mPlaybackPaused |-> mPlaybackPaused,
      bDevicePaused |-> bDevicePaused,
      mPausedSoundTypes |-> mPausedSoundTypes, bPausedTypes |-> bPausedTypes,
      mBufferNameMap |-> mBufferNameMap, mHandle |-> mHandle,
      mUses |-> mUses, mBufferCacheSize |-> mBufferCacheSize,
      mUnusedBuffers |-> mUnusedBuffers,
      mLoadedSoundBuffers |-> mLoadedSoundBuffers,
      mLoadingSounds |-> mLoadingSounds, mActiveSounds |-> mActiveSounds,
      snd |-> snd, bPlaying |-> bPlaying,
      mUnderwaterSound |-> mUnderwaterSound,
      mNearWaterSound |-> mNearWaterSound, mLastCell |-> mLastCell,
      world |-> world,
      mListenerUnderwater |-> mListenerUnderwater, strm |-> strm,
      bStreamPlaying |-> bStreamPlaying, mWaitingVoice |-> mWaitingVoice,
      mActiveWaitingVoice |-> mActiveWaitingVoice,
      mActiveSaySounds |-> mActiveSaySounds,
      mVoiceDecoders |-> mVoiceDecoders, mWaitingMusic |-> mWaitingMusic,
      mMusicDecoders |-> mMusicDecoders, mMusic |-> mMusic,
      mNextMusic |-> mNextMusic, mLastPlayedMusic |-> mLastPlayedMusic,
      mCurrentPlaylist |-> mCurrentPlaylist, mMusicToPlay |-> mMusicToPlay,
      mActiveTracks |-> mActiveTracks, wItems |-> wItems,
      workQueue |-> workQueue, objPos |-> objPos,
      mListenerPos |-> mListenerPos, mTimePassed |-> mTimePassed,
      pc |-> pc, fault |-> fault, out |-> <<>>]

StreamOps == {"initStream", "finishStream", "streamSound", "setStreamPlaying",
              "playVoice", "playVoice.ptr"}

\* a call or a log line: the instance and the buffer it is about, its answer,
\* and what the call found: the state of the instance, the gain of its
\* source and whether the buffer was resident
Log(st, op, s, b, ok) ==
    [st EXCEPT !.out = Append(@,
        [op |-> op, snd |-> s, buf |-> b, ok |-> ok,
         state |-> IF s = NoSound THEN ""
                   ELSE IF op \in StreamOps THEN st.strm[s].state
                   ELSE st.snd[s].state,
         gain |-> IF s = NoSound \/ op \in StreamOps THEN 0
                  ELSE st.snd[s].bGain,
         res |-> b \in Store /\ st.mHandle[b]])]

SeqToSet(q) == {q[i] : i \in DOMAIN q}

RECURSIVE Flatten(_, _)
Flatten(f, order) ==
    IF order = <<>> THEN <<>> ELSE f[Head(order)] \o Flatten(f, Tail(order))

\* every <<instance, buffer>> pair of the active-sound table
ActivePairs(st) == SeqToSet(Flatten(st.mActiveSounds, PtrOrder))

\* the pending voice requests of both voice ledgers
Voices(st) == SeqToSet(st.mWaitingVoice) \cup SeqToSet(st.mActiveWaitingVoice)

\* instances a SoundPtr owns
OwnedSounds(st) ==
    ({r.mSound : r \in SeqToSet(st.mLoadingSounds)} \ {NoSound})
        \cup {p[1] : p \in ActivePairs(st)}

\* streams a StreamPtr owns
OwnedStreams(st) ==
    ({v.mStream : v \in Voices(st)}
        \cup {st.mActiveSaySounds[p] : p \in AllPtrs}
        \cup {st.mMusic}
        \cup SeqToSet(st.mActiveTracks)) \ {NoSound}

\* work items something still refers to
HeldItems(st) ==
    {r.mWorkItem : r \in SeqToSet(st.mLoadingSounds)}
        \cup {v.mWorkItem : v \in Voices(st)}
        \cup {m.mWorkItem : m \in SeqToSet(st.mWaitingMusic)}
        \cup SeqToSet(st.workQueue)
        \cup {w \in Items : st.wItems[w].status = "running"}

\* SoundPtr's and StreamPtr's deleter return an instance to its pool,
\* osg::ref_ptr destroys a work item nothing refers to
Recycle(st, sounds, streams, items) ==
    [st EXCEPT
        !.snd = [s \in Sounds |->
                    IF s \in sounds THEN st.snd[s] ELSE FreeSound],
        !.bPlaying = [s \in Sounds |-> s \in sounds /\ st.bPlaying[s]],
        !.strm = [s \in Streams |->
                    IF s \in streams THEN st.strm[s] ELSE FreeStream],
        !.bStreamPlaying = [s \in Streams |->
                    s \in streams /\ st.bStreamPlaying[s]],
        !.wItems = [w \in Items |->
                    IF w \in items THEN st.wItems[w] ELSE FreeItem]]

(* The address of an instance or a work item means nothing to the program  *)
(* beyond its identity, so the objects in use are numbered in the order    *)
(* the program's containers hold them, and the free ones after them.       *)

RECURSIVE Distinct(_)
\* the sequence without the later occurrences of its elements
Distinct(q) ==
    IF q = <<>> THEN <<>>
    ELSE LET r == Distinct(SubSeq(q, 1, Len(q) - 1))
         IN IF q[Len(q)] \in SeqToSet(r) THEN r ELSE Append(r, q[Len(q)])

RECURSIVE Ascending(_)
Ascending(set) ==
    IF set = {} THEN <<>>
    ELSE LET m == CHOOSE x \in set : \A y \in set : x <= y
         IN <<m>> \o Ascending(set \ {m})

\* order, then the rest of all in ascending order
Completed(order, all) ==
    LET q == SelectSeq(Distinct(order), LAMBDA x : x \in all)
    IN q \o Ascending(all \ SeqToSet(q))

\* the new number of every object, 0 for null
Numbering(full) ==
    [x \in 0..Len(full) |->
        IF x = 0 THEN 0 ELSE CHOOSE i \in DOMAIN full : full[i] = x]

Field(q, F(_)) == [i \in 1..Len(q) |-> F(q[i])]

SoundOrder(st) ==
    Completed(Field(st.mLoadingSounds, LAMBDA r : r.mSound)
                \o Field(Flatten(st.mActiveSounds, PtrOrder), LAMBDA p : p[1]),
              Sounds)

StreamOrder(st) ==
    Completed(Field(st.mWaitingVoice, LAMBDA v : v.mStream)
                \o Field(st.mActiveWaitingVoice, LAMBDA v : v.mStream)
                \o Field(PtrOrder, LAMBDA p : st.mActiveSaySounds[p])
                \o <<st.mMusic>> \o st.mActiveTracks,
              Streams)

ItemOrder(st) ==
    Completed(st.workQueue
                \o Ascending({w \in Items : st.wItems[w].status = "running"})
                \o Field(st.mLoadingSounds, LAMBDA r : r.mWorkItem)
                \o Field(st.mWaitingVoice, LAMBDA r : r.mWorkItem)
                \o Field(st.mActiveWaitingVoice, LAMBDA r : r.mWorkItem)
                \o Field(st.mWaitingMusic, LAMBDA r : r.mWorkItem),
              Items)

\* st with its instances numbered as fs and ft list them and its work items
\* as fw lists them; rs, rt and rw are the new numbers
Renumber(st, fs, ft, fw, rs, rt, rw) ==
    [st EXCEPT
        !.snd = [i \in Sounds |-> st.snd[fs[i]]],
        !.bPlaying = [i \in Sounds |-> st.bPlaying[fs[i]]],
        !.strm = [i \in Streams |-> st.strm[ft[i]]],
        !.bStreamPlaying = [i \in Streams |-> st.bStreamPlaying[ft[i]]],
        !.wItems = [i \in Items |-> st.wItems[fw[i]]],
        !.workQueue = Field(st.workQueue, LAMBDA w : rw[w]),
        !.mLoadingSounds = Field(st.mLoadingSounds, LAMBDA r :
            [r EXCEPT !.mSound = rs[r.mSound], !.mWorkItem = rw[r.mWorkItem]]),
        !.mActiveSounds = [p \in AllPtrs |-> Field(st.mActiveSounds[p],
            LAMBDA e : <<rs[e[1]], e[2]>>)],
        !.mUnderwaterSound = rs[st.mUnderwaterSound],
        !.mNearWaterSound = rs[st.mNearWaterSound],
        !.mWaitingVoice = Field(st.mWaitingVoice, LAMBDA v :
            [v EXCEPT !.mStream = rt[v.mStream], !.mWorkItem = rw[v.mWorkItem]]),
        !.mActiveWaitingVoice = Field(st.mActiveWaitingVoice, LAMBDA v :
            [v EXCEPT !.mStream = rt[v.mStream], !.mWorkItem = rw[v.mWorkItem]]),
        !.mActiveSaySounds = [p \in AllPtrs |-> rt[st.mActiveSaySounds[p]]],
        !.mWaitingMusic = Field(st.mWaitingMusic, LAMBDA m :
            [m EXCEPT !.mWorkItem = rw[m.mWorkItem]]),
        !.mMusic = rt[st.mMusic],
        !.mActiveTracks = Field(st.mActiveTracks, LAMBDA s : rt[s]),
        !.out = Field(st.out, LAMBDA c :
            [c EXCEPT !.snd = IF c.op \in StreamOps THEN rt[c.snd]
                              ELSE rs[c.snd]])]

\* the next state is st0; the pool of unused buffers stays within MaxPool
Commit(st0) ==
    \E s0 \in {st0} :
    \E st1 \in {Recycle(s0, OwnedSounds(s0), OwnedStreams(s0),
                          HeldItems(s0))} :
    \E fs \in {SoundOrder(st1)}, ft \in {StreamOrder(st1)},
       fw \in {ItemOrder(st1)} :
    \E st \in {IF /\ fs = Ascending(Sounds) /\ ft = Ascending(Streams)
                   /\ fw = Ascending(Items)
                THEN st1
                ELSE Renumber(st1, fs, ft, fw, Numbering(fs), Numbering(ft),
                              Numbering(fw))} :
    /\ Len(st.mUnusedBuffers) <= MaxPool
    /\ mInitialized' = st.mInitialized
    /\ mPlaybackPaused' = st.mPlaybackPaused
    /\ bDevicePaused' = st.bDevicePaused
    /\ mPausedSoundTypes' = st.mPausedSoundTypes
    /\ bPausedTypes' = st.bPausedTypes
    /\ mBufferNameMap' = st.mBufferNameMap
    /\ mHandle' = st.mHandle
    /\ mUses' = st.mUses
    /\ mBufferCacheSize' = st.mBufferCacheSize
    /\ mUnusedBuffers' = st.mUnusedBuffers
    /\ mLoadedSoundBuffers' = st.mLoadedSoundBuffers
    /\ mLoadingSounds' = st.mLoadingSounds
    /\ mActiveSounds' = st.mActiveSounds
    /\ snd' = st.snd
    /\ bPlaying' = st.bPlaying
    /\ mUnderwaterSound' = st.mUnderwaterSound
    /\ mNearWaterSound' = st.mNearWaterSound
    /\ mLastCell' = st.mLastCell
    /\ world' = st.world
    /\ mListenerUnderwater' = st.mListenerUnderwater
    /\ strm' = st.strm
    /\ bStreamPlaying' = st.bStreamPlaying
    /\ mWaitingVoice' = st.mWaitingVoice
    /\ mActiveWaitingVoice' = st.mActiveWaitingVoice
    /\ mActiveSaySounds' = st.mActiveSaySounds
    /\ mVoiceDecoders' = st.mVoiceDecoders
    /\ mWaitingMusic' = st.mWaitingMusic
    /\ mMusicDecoders' = st.mMusicDecoders
    /\ mMusic' = st.mMusic
    /\ mNextMusic' = st.mNextMusic
    /\ mLastPlayedMusic' = st.mLastPlayedMusic
    /\ mCurrentPlaylist' = st.mCurrentPlaylist
    /\ mMusicToPlay' = st.mMusicToPlay
    /\ mActiveTracks' = st.mActiveTracks
    /\ wItems' = st.wItems
    /\ workQueue' = st.workQueue
    /\ objPos' = st.objPos
    /\ mListenerPos' = st.mListenerPos
    /\ mTimePassed' = st.mTimePassed
    /\ pc' = st.pc
    /\ fault' = st.fault
    /\ out' = st.out

----------------------------------------------------------------------------
(* Buffer registry *)

\* insertSound: register the descriptor of a store record
insertSound(st, soundId) ==
    [st EXCEPT !.mBufferNameMap = @ \cup {soundId}]

\* lookupSound: the descriptor of soundId if it is resident
lookupSound(st, soundId) ==
    IF soundId \in st.mBufferNameMap /\ st.mHandle[soundId]
    THEN soundId ELSE NullBuf

\* the size the backend's unloadSound frees: nothing for a null handle
unloadSound(st, sfx) == IF st.mHandle[sfx] THEN BufSize(sfx) ELSE 0

RECURSIVE evictUnused(_)
\* an eviction that gives up with the total set back to the minimum
evictUnused_clampsTotal(st) ==
    IF st.mUnusedBuffers = <<>>
    THEN [Log(st, "warnNoUnused", NoSound, "", TRUE)
            EXCEPT !.mBufferCacheSize = mBufferCacheMin]
    ELSE LET unused == st.mUnusedBuffers[Len(st.mUnusedBuffers)]
             s1 == [Log(st, "unloadSound", NoSound, unused, TRUE) EXCEPT
                       !.mBufferCacheSize = @ - unloadSound(st, unused),
                       !.mHandle[unused] = FALSE,
                       !.mUnusedBuffers = SubSeq(@, 1, Len(@) - 1)]
         IN IF s1.mBufferCacheSize > mBufferCacheMin
            THEN evictUnused(s1) ELSE s1

\* an eviction that unloads one buffer and leaves the total as it is
evictUnused_keepsTotal(st) ==
    IF st.mUnusedBuffers = <<>>
    THEN Log(st, "warnNoUnused", NoSound, "", TRUE)
    ELSE LET unused == st.mUnusedBuffers[Len(st.mUnusedBuffers)]
         IN [Log(st, "unloadSound", NoSound, unused, TRUE) EXCEPT
                !.mHandle[unused] = FALSE,
                !.mUnusedBuffers = SubSeq(@, 1, Len(@) - 1)]

\* the do-while of loadSoundSync: unload from the back of the pool until the
\* total is no more than the minimum, or warn and stop when the pool is empty
evictUnused(st) ==
    IF st.mUnusedBuffers = <<>>
    THEN Log(st, "warnNoUnused", NoSound, "", TRUE)
    ELSE LET unused == st.mUnusedBuffers[Len(st.mUnusedBuffers)]
             s1 == [Log(st, "unloadSound", NoSound, unused, TRUE) EXCEPT
                       !.mBufferCacheSize = @ - unloadSound(st, unused),
                       !.mHandle[unused] = FALSE,
                       !.mUnusedBuffers = SubSeq(@, 1, Len(@) - 1)]
         IN IF s1.mBufferCacheSize > mBufferCacheMin
            THEN evictUnused(s1) ELSE s1

\* a loadSoundSync that never evicts
settleCache_noEviction(st) == st

\* the eviction of loadSoundSync after a load has been added to the total
settleCache(st) ==
    IF st.mBufferCacheSize > mBufferCacheMax THEN evictUnused(st) ELSE st

\* a loadSoundSync that returns the descriptor of a buffer that failed to load
loadSoundSync_ignoresFailure(st, soundId, loadOk) ==
    IF soundId \notin Store
    THEN [st |-> [st EXCEPT !.mBufferNameMap = Store], sfx |-> NullBuf]
    ELSE [st |-> Log([st EXCEPT !.mBufferNameMap = Store],
                     "loadSound", NoSound, soundId, loadOk),
          sfx |-> soundId]

\* a loadSoundSync that adds to the total and the pool before it looks at
\* the handle the backend returned
loadSoundSync_countsFailed(st, soundId, loadOk) ==
    LET s1 == [st EXCEPT !.mBufferNameMap = Store]
    IN IF soundId \notin Store THEN [st |-> s1, sfx |-> NullBuf]
       ELSE IF s1.mHandle[soundId] THEN [st |-> s1, sfx |-> soundId]
       ELSE LET s3 == Log(s1, "loadSound", NoSound, soundId, loadOk)
                s4 == settleCache([s3 EXCEPT !.mHandle[soundId] = loadOk,
                                             !.mBufferCacheSize =
                                                @ + BufSize(soundId)])
            IN [st |-> [s4 EXCEPT !.mUnusedBuffers = <<soundId>> \o @],
                sfx |-> IF loadOk THEN soundId ELSE NullBuf]

\* loadSoundSync: [st, sfx]; loadOk is the outcome of the backend's loadSound
loadSoundSync(st, soundId, loadOk) ==
    LET s1 == IF st.mBufferNameMap = {}
              THEN [st EXCEPT !.mBufferNameMap = Store] ELSE st
        known == soundId \in s1.mBufferNameMap \/ soundId \in Store
        s2 == IF soundId \notin s1.mBufferNameMap /\ soundId \in Store
              THEN insertSound(s1, soundId) ELSE s1
    IN IF ~known THEN [st |-> s1, sfx |-> NullBuf]
       ELSE IF s2.mHandle[soundId] THEN [st |-> s2, sfx |-> soundId]
       ELSE LET s3 == Log(s2, "loadSound", NoSound, soundId, loadOk)
            IN IF ~loadOk THEN [st |-> s3, sfx |-> NullBuf]
               ELSE LET s4 == settleCache(
                                [s3 EXCEPT !.mHandle[soundId] = TRUE,
                                           !.mBufferCacheSize =
                                                @ + BufSize(soundId)])
                    IN [st |-> [s4 EXCEPT !.mUnusedBuffers =
                                                <<soundId>> \o @],
                        sfx |-> soundId]

----------------------------------------------------------------------------
(* Instances and the backend *)

isPlaying(st, sound) == st.snd[sound].state = "Playing"
isLoadCancelled(st, sound) == st.snd[sound].state = "LoadCancelled"
setPlaying(st, sound) ==
    [Log(st, "setPlaying", sound, "", TRUE)
        EXCEPT !.snd[sound].state = "Playing"]
cancelLoading(st, sound) ==
    [Log(st, "cancelLoading", sound, "", TRUE)
        EXCEPT !.snd[sound].state = "LoadCancelled"]

\* SoundBase::init
init(st, sound, is3D, cull) ==
    [Log(st, "init", sound, "", TRUE) EXCEPT !.snd[sound] =
        [state |-> "Loading", is3D |-> is3D, cull |-> cull,
         mVolumeFactor |-> FullVolume, mFadeOutTime |-> 0,
         mSfxVolume |-> 0, mMinDistance |-> 0, mMaxDistance |-> 0,
         bGain |-> 0]]

\* the backend's finishSound
finishSound(st, sound) ==
    [Log(st, "finishSound", sound, "", TRUE) EXCEPT !.bPlaying[sound] = FALSE]

\* the backend's playSound and playSound3D; played is its answer
outputPlaySound(st, sound, sfx, played) ==
    [Log(st, IF st.snd[sound].is3D THEN "playSound3D" ELSE "playSound",
         sound, sfx, played)
        EXCEPT !.bPlaying[sound] = played,
               !.snd[sound].bGain =
                   IF played THEN st.snd[sound].mVolumeFactor ELSE @]

FreeSounds(st) == Sounds \ OwnedSounds(st)
FreeItems(st) == Items \ HeldItems(st)

\* mSounds.get()
getSoundRef(st) ==
    CHOOSE s \in FreeSounds(st) : \A t \in FreeSounds(st) : s <= t

\* what a request needs within the bounds of the model
CanRequest(st) ==
    /\ FreeSounds(st) # {}
    /\ FreeItems(st) # {}
    /\ Len(st.mLoadingSounds) < MaxLoading

----------------------------------------------------------------------------
(* Request path *)

\* makeWorkItem and WorkQueue::addWorkItem
addWorkItem(st, w, kind, arg) ==
    [st EXCEPT !.wItems[w] = [status |-> "queued", aborted |-> FALSE,
                              kind |-> kind, arg |-> arg],
               !.workQueue = Append(@, w)]

loadSoundAsync(st, ptr, soundId, sound) ==
    LET load == CHOOSE w \in FreeItems(st) : \A v \in FreeItems(st) : w <= v
        loading == [mPtr |-> ptr, mSoundId |-> soundId, mSound |-> sound,
                    mWorkItem |-> load, mDeadline |-> sAsyncOperationTimeout]
    IN addWorkItem([st EXCEPT !.mLoadingSounds = Append(@, loading)],
                   load, "sound", soundId)

\* playSound(soundId, ...): [st, sound]
playSound(st, soundId) ==
    IF ~st.mInitialized THEN [st |-> st, sound |-> NoSound]
    ELSE LET sound == getSoundRef(st)
         IN [st |-> loadSoundAsync(init(st, sound, FALSE, FALSE), NoPtr,
                                   LowerCase(soundId), sound),
             sound |-> sound]

\* a playSound3D that also rejects the request made on the 2000 radius
playSound3D_cullsAtRadius(st, ptr, soundId, removeAtDistance, noPlayerLocal) ==
    IF ~st.mInitialized THEN [st |-> st, sound |-> NoSound]
    ELSE IF removeAtDistance
            /\ length2(st.mListenerPos, st.objPos[ptr]) >= 2000 * 2000
    THEN [st |-> st, sound |-> NoSound]
    ELSE LET sound == getSoundRef(st)
             is3D == ~(~noPlayerLocal /\ ptr = getPlayer)
         IN [st |-> loadSoundAsync(init(st, sound, is3D, removeAtDistance),
                                   ptr, LowerCase(soundId), sound),
             sound |-> sound]

\* playSound3D(ptr, soundId, ...): [st, sound]; removeAtDistance and
\* noPlayerLocal are the flags of mode
playSound3D(st, ptr, soundId, removeAtDistance, noPlayerLocal) ==
    IF ~st.mInitialized THEN [st |-> st, sound |-> NoSound]
    ELSE IF removeAtDistance
            /\ length2(st.mListenerPos, st.objPos[ptr]) > 2000 * 2000
    THEN [st |-> st, sound |-> NoSound]
    ELSE LET sound == getSoundRef(st)
             is3D == ~(~noPlayerLocal /\ ptr = getPlayer)
         IN [st |-> loadSoundAsync(init(st, sound, is3D, removeAtDistance),
                                   ptr, LowerCase(soundId), sound),
             sound |-> sound]

\* a stopSound(Sound*) that cancels whatever the state of the instance
stopSound_alwaysCancels(st, sound) ==
    IF sound = NoSound THEN st ELSE cancelLoading(st, sound)

\* stopSound(Sound*)
stopSound(st, sound) ==
    IF sound = NoSound THEN st
    ELSE IF isPlaying(st, sound) THEN finishSound(st, sound)
    ELSE cancelLoading(st, sound)

RECURSIVE finishAll(_, _)
\* finishSound on the instance of every pair of the list, in order
finishAll(st, list) ==
    IF list = <<>> THEN st
    ELSE finishAll(finishSound(st, Head(list)[1]), Tail(list))

\* stopSound(Sound_Buffer*, ptr)
stopSoundBuffer(st, sfx, ptr) ==
    finishAll(st, SelectSeq(st.mActiveSounds[ptr], LAMBDA p : p[2] = sfx))

RECURSIVE cancelAll(_, _)
\* cancelLoading on the instance of every request of the list, in order
cancelAll(st, list) ==
    IF list = <<>> THEN st
    ELSE cancelAll(cancelLoading(st, Head(list).mSound), Tail(list))

\* stopSound3D(ptr, soundId)
stopSound3DId(st, ptr, soundId) ==
    IF ~st.mInitialized THEN st
    ELSE LET normalizedSoundId == LowerCase(soundId)
             sfx == lookupSound(st, normalizedSoundId)
             s1 == IF sfx # NullBuf THEN stopSoundBuffer(st, sfx, ptr) ELSE st
         IN cancelAll(s1, SelectSeq(s1.mLoadingSounds,
                              LAMBDA r : /\ r.mPtr = ptr
                                         /\ r.mSoundId = normalizedSoundId))

\* a fadeOutSound3D that sets the fade time of every instance of the entity
fadeOutSound3D_anyBuffer(st, ptr, soundId, duration) ==
    [st EXCEPT !.snd = [s \in Sounds |->
        IF \E i \in DOMAIN st.mActiveSounds[ptr] :
               st.mActiveSounds[ptr][i][1] = s
        THEN [st.snd[s] EXCEPT !.mFadeOutTime = duration]
        ELSE st.snd[s]]]

\* fadeOutSound3D(ptr, soundId, duration): setFadeout on the instances of
\* the entity that play the buffer of soundId
fadeOutSound3D(st, ptr, soundId, duration) ==
    LET sfx == lookupSound(st, LowerCase(soundId))
    IN IF st.mActiveSounds[ptr] = <<>> \/ sfx = NullBuf THEN st
       ELSE [st EXCEPT !.snd = [s \in Sounds |->
                IF \E i \in DOMAIN st.mActiveSounds[ptr] :
                       /\ st.mActiveSounds[ptr][i][1] = s
                       /\ st.mActiveSounds[ptr][i][2] = sfx
                THEN [st.snd[s] EXCEPT !.mFadeOutTime = duration]
                ELSE st.snd[s]]]

\* stopSound3D(ptr)
stopSound3D(st, ptr) ==
    LET s1 == cancelAll(st, SelectSeq(st.mLoadingSounds,
                                      LAMBDA r : r.mPtr = ptr))
    IN finishAll(s1, s1.mActiveSounds[ptr])

inCell(ptr, cell) ==
    ptr # NoPtr /\ ptr # getPlayer /\ getCell(ptr) = cell

RECURSIVE finishInCell(_, _, _)
finishInCell(st, order, cell) ==
    IF order = <<>> THEN st
    ELSE finishInCell(IF inCell(Head(order), cell)
                      THEN finishAll(st, st.mActiveSounds[Head(order)])
                      ELSE st,
                      Tail(order), cell)

\* stopSound(cell)
stopSoundCell(st, cell) ==
    finishInCell(cancelAll(st, SelectSeq(st.mLoadingSounds,
                                         LAMBDA r : inCell(r.mPtr, cell))),
                 PtrOrder, cell)

----------------------------------------------------------------------------
(* Streams: voice lines, music and tracks *)

\* the files of the virtual file system
VFSFiles == {"sound/v1.wav", "sound/v2.mp3", "music/m1.mp3",
             "music/explore/t1.mp3", "music/explore/t2.mp3",
             "music/explore/t3.mp3"}

\* file names as callers of say and streamMusic spell them
VoiceNames == {"v1.wav", "v3.wav"}
MusicNames == {"m1.mp3", "m9.mp3"}

\* "Sound/" + filename after normalizeFilename
voicePath(filename) ==
    CASE filename = "v1.wav" -> "sound/v1.wav"
      [] filename = "v2.wav" -> "sound/v2.wav"
      [] OTHER -> "sound/v3.wav"

\* the keys of mVoiceDecoders in the order of std::map
VoicePathOrder == <<"sound/v1.wav", "sound/v2.wav", "sound/v3.wav">>

\* file.substr(0, file.rfind('.')) + ".mp3"
mp3Of(path) ==
    CASE path = "sound/v1.wav" -> "sound/v1.mp3"
      [] path = "sound/v2.wav" -> "sound/v2.mp3"
      [] OTHER -> "sound/v3.mp3"

\* "Music/" + filename
musicPath(filename) ==
    IF filename = "m1.mp3" THEN "Music/m1.mp3" ELSE "Music/m9.mp3"

\* Sound_Decoder::open succeeds: the file exists, whatever the case of its name
canOpen(path) ==
    \/ path \in VFSFiles
    \/ path = "Music/m1.mp3"

\* mMusicFiles: the files of each playlist
Playlists == {"explore"}
mMusicFiles(playlist) ==
    IF playlist \in Playlists
    THEN <<"music/explore/t1.mp3", "music/explore/t2.mp3",
           "music/explore/t3.mp3">>
    ELSE <<>>

\* the playlists callers of playPlaylist name: one with files and one the
\* file system has nothing for
PlaylistNames == Playlists \cup {"nothing"}

\* loadVoice: TRUE if it returns a decoder, FALSE if open threw and it
\* returns nullptr
loadVoice(voicefile) ==
    IF voicefile \in VFSFiles THEN canOpen(voicefile)
    ELSE canOpen(mp3Of(voicefile))

FreeStreams(st) == Streams \ OwnedStreams(st)

\* mStreams.get()
getStreamRef(st) ==
    CHOOSE s \in FreeStreams(st) : \A t \in FreeStreams(st) : s <= t

\* SoundBase::init of a stream
initStream(st, stream) ==
    [Log(st, "initStream", stream, "", TRUE) EXCEPT
                       !.strm[stream] = [state |-> "Loading",
                                 mVolumeFactor |-> FullVolume,
                                 mFadeOutTime |-> 0]]

\* SoundBase::setPlaying of a stream
setStreamPlaying(st, stream) ==
    [Log(st, "setStreamPlaying", stream, "", TRUE)
        EXCEPT !.strm[stream].state = "Playing"]

\* the backend's finishStream
finishStream(st, stream) ==
    [Log(st, "finishStream", stream, "", TRUE)
        EXCEPT !.bStreamPlaying[stream] = FALSE]

\* the backend's streamSound and streamSound3D; played is its answer
outputStreamSound(st, stream, played) ==
    [Log(st, "streamSound", stream, "", played)
        EXCEPT !.bStreamPlaying[stream] = played]

\* an updateFade that takes the whole of duration off the fade time
updateFade_unclamped(s, duration) ==
    IF s.mFadeOutTime > 0
    THEN [s EXCEPT !.mVolumeFactor =
                       (@ * (s.mFadeOutTime - duration)) \div s.mFadeOutTime,
                   !.mFadeOutTime = @ - duration]
    ELSE s

\* SoundBase::updateFade
updateFade(s, duration) ==
    IF s.mFadeOutTime > 0
    THEN LET soundDuration == IF duration < s.mFadeOutTime
                              THEN duration ELSE s.mFadeOutTime
         IN [s EXCEPT !.mVolumeFactor =
                          (@ * (s.mFadeOutTime - soundDuration))
                              \div s.mFadeOutTime,
                      !.mFadeOutTime = @ - soundDuration]
    ELSE s

\* SoundBase::getRealVolume, with a base and sfx volume of 1.0
getRealVolume(s) == s.mVolumeFactor

\* the backend's updateSound: it takes the volume of the instance as the
\* gain of its source
updateSound(st, sound) ==
    [st EXCEPT !.snd[sound].bGain = getRealVolume(st.snd[sound])]

\* the backend's isSoundPlaying: the source has not ended and is audible at
\* the gain it was last given
isSoundPlaying(st, sound) == st.bPlaying[sound] /\ st.snd[sound].bGain > 0

minFree(set) == CHOOSE w \in set : \A v \in set : w <= v

\* what a voice or a music request needs within the bounds of the model
CanSay(st) ==
    /\ FreeStreams(st) # {}
    /\ FreeItems(st) # {}
    /\ Len(st.mWaitingVoice) + Len(st.mActiveWaitingVoice) < MaxVoices

CanStreamMusic(st) ==
    /\ FreeItems(st) # {}
    /\ Len(st.mWaitingMusic) < MaxMusic

\* sayAsync; toActive says that the ledger is mActiveWaitingVoice
sayAsync(st, ptr, filename, toActive) ==
    LET voicefile == voicePath(filename)
        stream == getStreamRef(st)
        createDecoder == minFree(FreeItems(st))
        voice == [mPtr |-> ptr, mFileName |-> voicefile, mStream |-> stream,
                  mWorkItem |-> createDecoder,
                  mDeadline |-> sAsyncOperationTimeout]
        s1 == initStream(st, stream)
        s2 == IF toActive
              THEN [s1 EXCEPT !.mActiveWaitingVoice = Append(@, voice)]
              ELSE [s1 EXCEPT !.mWaitingVoice = Append(@, voice)]
    IN addWorkItem(s2, createDecoder, "voice", voicefile)

\* say(ptr, filename)
say(st, ptr, filename) ==
    IF ~st.mInitialized THEN st ELSE sayAsync(st, ptr, filename, FALSE)

\* say(filename)
sayNoPtr(st, filename) ==
    IF ~st.mInitialized THEN st ELSE sayAsync(st, NoPtr, filename, TRUE)

\* stopSay
stopSay(st, ptr) ==
    LET s1 == [st EXCEPT
                 !.mWaitingVoice = SelectSeq(@, LAMBDA v : v.mPtr # ptr),
                 !.mActiveWaitingVoice = SelectSeq(@, LAMBDA v : v.mPtr # ptr)]
    IN IF s1.mActiveSaySounds[ptr] # NoSound
       THEN [finishStream(s1, s1.mActiveSaySounds[ptr])
                EXCEPT !.mActiveSaySounds[ptr] = NoSound]
       ELSE s1

\* updatePtr: std::map::emplace inserts nothing where the key is present, and
\* what was moved out of the entry of old is then destroyed with its owner
updatePtr(st, old, updated) ==
    LET sndlist == st.mActiveSounds[old]
        stream == st.mActiveSaySounds[old]
        rekey(ledger) ==
            [k \in DOMAIN ledger |->
                IF ledger[k].mPtr = old
                THEN [ledger[k] EXCEPT !.mPtr = updated] ELSE ledger[k]]
        s1 == IF sndlist = <<>> THEN st
              ELSE [st EXCEPT !.mActiveSounds =
                       [p \in AllPtrs |->
                           IF p = updated
                           THEN IF p = old \/ st.mActiveSounds[p] = <<>>
                                THEN sndlist ELSE st.mActiveSounds[p]
                           ELSE IF p = old THEN <<>>
                           ELSE st.mActiveSounds[p]]]
        s2 == IF stream = NoSound THEN s1
              ELSE [s1 EXCEPT !.mActiveSaySounds =
                       [p \in AllPtrs |->
                           IF p = updated
                           THEN IF p = old \/ s1.mActiveSaySounds[p] = NoSound
                                THEN stream ELSE s1.mActiveSaySounds[p]
                           ELSE IF p = old THEN NoSound
                           ELSE s1.mActiveSaySounds[p]]]
    IN [Log(s2, "updatePtr", NoSound, old, TRUE)
           EXCEPT !.mWaitingVoice = rekey(@),
                  !.mLoadingSounds = rekey(@)]

\* the first request of mActiveWaitingVoice for the file, 0 if none
findWaiting(st, fileName) ==
    LET hits == {i \in DOMAIN st.mActiveWaitingVoice :
                    st.mActiveWaitingVoice[i].mFileName = fileName}
    IN IF hits = {} THEN 0 ELSE minFree(hits)

RECURSIVE playVoices(_, _, _)
\* the loop of playAllVoicesFromCreatedDecoders over the decoders of the
\* cache; played[file] is the backend's answer
playVoices(st, order, played) ==
    IF order = <<>> THEN st
    ELSE LET file == Head(order)
             i == findWaiting(st, file)
         IN IF file \notin st.mVoiceDecoders \/ i = 0
            THEN playVoices(st, Tail(order), played)
            ELSE LET ptr == st.mActiveWaitingVoice[i].mPtr
                     stream == st.mActiveWaitingVoice[i].mStream
                     s1 == Log(Log(stopSay(st, ptr), "playVoice", stream,
                                   file, played[file]),
                               "playVoice.ptr", stream, ptr, TRUE)
                     s2 == outputStreamSound(s1, stream, played[file])
                     s3 == IF played[file]
                           THEN [setStreamPlaying(s2, stream)
                                    EXCEPT !.mActiveSaySounds[ptr] = stream]
                           ELSE s2
                 IN playVoices(s3, Tail(order), played)

\* playAllVoicesFromCreatedDecoders, after its waits
playAllVoicesFromCreatedDecoders(st, played) ==
    LET s1 == [st EXCEPT !.mActiveWaitingVoice = @ \o st.mWaitingVoice,
                         !.mWaitingVoice = <<>>]
    IN IF s1.mActiveWaitingVoice = <<>> THEN s1
       ELSE [playVoices(s1, VoicePathOrder, played)
                EXCEPT !.mVoiceDecoders = {}]

\* abortAll
abortAll(st, waiting) ==
    [st EXCEPT !.wItems = [w \in Items |->
        IF w \in {v.mWorkItem : v \in SeqToSet(waiting)}
        THEN [st.wItems[w] EXCEPT !.aborted = TRUE] ELSE st.wItems[w]]]

\* stopMusic
stopMusic(st) ==
    IF st.mMusic # NoSound
    THEN [finishStream(st, st.mMusic) EXCEPT !.mMusic = NoSound]
    ELSE st

\* streamMusicFull
streamMusicFull(st, filename) ==
    IF ~st.mInitialized THEN st
    ELSE LET createDecoder == minFree(FreeItems(st))
             music == [mFileName |-> filename, mWorkItem |-> createDecoder,
                       mDeadline |-> sAsyncOperationTimeout]
         IN addWorkItem([Log(st, "Playing", NoSound, filename, TRUE)
                            EXCEPT !.mLastPlayedMusic = filename,
                                   !.mWaitingMusic = Append(@, music)],
                        createDecoder, "music", filename)

isMusicPlaying(st) ==
    \/ st.mWaitingMusic # <<>>
    \/ st.mMusic # NoSound /\ st.bStreamPlaying[st.mMusic]

\* advanceMusic; mMusic->setFadeout dereferences mMusic
advanceMusic(st, filename) ==
    IF ~isMusicPlaying(st) THEN streamMusicFull(st, filename)
    ELSE IF st.mMusic = NoSound
    THEN [st EXCEPT !.mNextMusic = filename, !.fault = "null mMusic"]
    ELSE [st EXCEPT !.mNextMusic = filename,
                    !.strm[st.mMusic].mFadeOutTime = MusicFadeOut]

\* streamMusic
streamMusic(st, filename) == advanceMusic(st, musicPath(filename))

\* the list without its element at position i, the last element moved there
swapRemove(list, i) ==
    [k \in 1..(Len(list) - 1) |-> IF k = i THEN list[Len(list)] ELSE list[k]]

\* a startRandomTitle that keeps the track it has drawn in the list
startRandomTitle_keepsDrawn(st, roll) ==
    LET filelist == mMusicFiles(st.mCurrentPlaylist)
        tracklist == IF st.mMusicToPlay[st.mCurrentPlaylist] = <<>>
                     THEN [k \in 1..Len(filelist) |-> k]
                     ELSE st.mMusicToPlay[st.mCurrentPlaylist]
        i == IF filelist[tracklist[roll + 1]] = st.mLastPlayedMusic
             THEN (roll + 1) % Len(tracklist) ELSE roll
        s1 == advanceMusic(st, filelist[tracklist[i + 1]])
    IN [s1 EXCEPT !.mMusicToPlay[st.mCurrentPlaylist] =
                        SubSeq(tracklist, 1, Len(tracklist) - 1)]

\* startRandomTitle; roll is Misc::Rng::rollDice(tracklist.size())
startRandomTitle(st, roll) ==
    LET filelist == mMusicFiles(st.mCurrentPlaylist)
        tracklist == IF st.mMusicToPlay[st.mCurrentPlaylist] = <<>>
                     THEN [k \in 1..Len(filelist) |-> k]
                     ELSE st.mMusicToPlay[st.mCurrentPlaylist]
        i == IF filelist[tracklist[roll + 1]] = st.mLastPlayedMusic
             THEN (roll + 1) % Len(tracklist) ELSE roll
        s1 == advanceMusic(st, filelist[tracklist[i + 1]])
    IN [s1 EXCEPT !.mMusicToPlay[st.mCurrentPlaylist] =
                        swapRemove(tracklist, i + 1)]

\* playPlaylist; roll is the dice of startRandomTitle
playPlaylist(st, playlist, roll) ==
    IF st.mCurrentPlaylist = playlist THEN st
    ELSE IF mMusicFiles(playlist) = <<>> THEN st
    ELSE startRandomTitle([st EXCEPT !.mCurrentPlaylist = playlist], roll)

\* the size rollDice is called with
rollSize(st) ==
    IF st.mMusicToPlay[st.mCurrentPlaylist] = <<>>
    THEN Len(mMusicFiles(st.mCurrentPlaylist))
    ELSE Len(st.mMusicToPlay[st.mCurrentPlaylist])

\* playMusicFromCreatedDecoder, after its wait; played is the answer of the
\* backend's streamSound, which the code does not look at
playMusicFromCreatedDecoder(st, played) ==
    IF st.mWaitingMusic = <<>> THEN st
    ELSE IF st.mWaitingMusic[Len(st.mWaitingMusic)].mFileName
                \notin st.mMusicDecoders
    THEN st
    ELSE LET s1 == stopMusic(st)
             stream == getStreamRef(s1)
             s2 == [initStream(s1, stream) EXCEPT !.mMusic = stream]
             s3 == outputStreamSound(s2, stream, played)
             s4 == setStreamPlaying(s3, stream)
             s5 == abortAll(s4, s4.mWaitingMusic)
         IN [s5 EXCEPT !.mWaitingMusic = <<>>, !.mMusicDecoders = {}]

\* updateMusic; mMusic->updateFade dereferences mMusic
updateMusic(st, duration) ==
    IF st.mNextMusic = "" THEN st
    ELSE IF st.mMusic = NoSound THEN [st EXCEPT !.fault = "null mMusic"]
    ELSE LET s1 == [st EXCEPT !.strm[st.mMusic] = updateFade(@, duration)]
         IN IF getRealVolume(s1.strm[s1.mMusic]) <= 0
            THEN [streamMusicFull(s1, s1.mNextMusic) EXCEPT !.mNextMusic = ""]
            ELSE s1

\* the position std::lower_bound finds for the stream in the sorted list
lowerBound(list, stream) ==
    Cardinality({i \in DOMAIN list : list[i] < stream}) + 1

insertAt(list, i, x) ==
    SubSeq(list, 1, i - 1) \o <<x>> \o SubSeq(list, i, Len(list))

removeAt(list, i) ==
    SubSeq(list, 1, i - 1) \o SubSeq(list, i + 1, Len(list))

\* playTrack; played is the answer of the backend's streamSound, where the
\* place std::lower_bound finds for the address of the new instance
playTrack(st, played, where) ==
    IF ~st.mInitialized THEN st
    ELSE LET track == getStreamRef(st)
             s1 == outputStreamSound(initStream(st, track), track, played)
         IN IF ~played THEN s1
            ELSE [setStreamPlaying(s1, track) EXCEPT
                            !.mActiveTracks =
                                insertAt(@, where, track)]

\* stopTrack
stopTrack(st, stream) ==
    LET s1 == finishStream(st, stream)
        iter == lowerBound(s1.mActiveTracks, stream)
    IN IF iter <= Len(s1.mActiveTracks) /\ s1.mActiveTracks[iter] = stream
       THEN [s1 EXCEPT !.mActiveTracks = removeAt(@, iter)]
       ELSE s1

----------------------------------------------------------------------------
(* Frame update *)

\* the list without the first occurrence of x
eraseFirst(list, x) ==
    LET hits == {i \in DOMAIN list : list[i] = x}
    IN IF hits = {} THEN list ELSE removeAt(list, minFree(hits))

\* a commit that starts the instance at full volume with no fade-out
setCommitParams_resetsVolume(st, sound, sfx) ==
    [st EXCEPT !.snd[sound].mSfxVolume = mVolume(sfx),
               !.snd[sound].mVolumeFactor = FullVolume,
               !.snd[sound].mFadeOutTime = 0,
               !.snd[sound].mMinDistance =
                   IF st.snd[sound].is3D THEN mMinDist(sfx) ELSE @,
               !.snd[sound].mMaxDistance =
                   IF st.snd[sound].is3D THEN mMaxDist(sfx) ELSE @]

\* what playLoadedSounds sets on the instance before it hands it to the
\* backend: setSfxVolume and, for a 3D sound, setMinDistance and
\* setMaxDistance
setCommitParams(st, sound, sfx) ==
    [st EXCEPT !.snd[sound].mSfxVolume = mVolume(sfx),
               !.snd[sound].mMinDistance =
                   IF st.snd[sound].is3D THEN mMinDist(sfx) ELSE @,
               !.snd[sound].mMaxDistance =
                   IF st.snd[sound].is3D THEN mMaxDist(sfx) ELSE @]

\* the end of the loop body of playLoadedSounds: the instance has been
\* accepted by the backend
commitSound(st, ptr, sound, sfx) ==
    LET s1 == setPlaying(st, sound)
    IN [s1 EXCEPT !.mUses[sfx] = @ + 1,
                  !.mUnusedBuffers = IF s1.mUses[sfx] = 0
                                     THEN eraseFirst(@, sfx) ELSE @,
                  !.mActiveSounds[ptr] = Append(@, <<sound, sfx>>)]

\* a drain that commits cancelled instances as well
dropsCancelled_never(st, sound) == FALSE

\* playLoadedSounds drops the instance of a drained request
dropsCancelled(st, sound) == isLoadCancelled(st, sound)

\* a stopSound(Sound_Buffer*, ptr) that finishes nothing
stopPrevious_none(st, sfx, ptr) == st

\* playLoadedSounds stops the previous copy of the buffer for the entity
stopPrevious(st, sfx, ptr) == stopSoundBuffer(st, sfx, ptr)

RECURSIVE commitLoaded_countsRejected(_, _, _)
\* a drain that counts a use of the buffer before the backend has answered
commitLoaded_countsRejected(st, i, played) ==
    IF i > Len(st.mLoadingSounds) THEN st
    ELSE LET loading == st.mLoadingSounds[i]
             loaded == st.mLoadedSoundBuffers[loading.mSoundId]
             sound == loading.mSound
             moved == [st EXCEPT !.mLoadingSounds[i].mSound = NoSound]
         IN IF loaded = Absent
            THEN commitLoaded_countsRejected(st, i + 1, played)
            ELSE IF dropsCancelled(st, sound) \/ loaded = NullBuf
            THEN commitLoaded_countsRejected(moved, i + 1, played)
            ELSE LET s1 == stopPrevious(moved, loaded, loading.mPtr)
                     s2 == outputPlaySound(setCommitParams(s1, sound, loaded),
                                           sound, loaded, played[i])
                     s3 == [s2 EXCEPT !.mUses[loaded] = @ + 1,
                                      !.mUnusedBuffers =
                                          IF s2.mUses[loaded] = 0
                                          THEN eraseFirst(@, loaded) ELSE @]
                 IN commitLoaded_countsRejected(
                        IF played[i]
                        THEN [setPlaying(s3, sound) EXCEPT
                                 !.mActiveSounds[loading.mPtr] =
                                     Append(@, <<sound, loaded>>)]
                        ELSE s3,
                        i + 1, played)

RECURSIVE commitLoaded(_, _, _)
\* the loop of playLoadedSounds over mLoadingSounds from position i;
\* played[i] is the answer of the backend's playSound or playSound3D
commitLoaded(st, i, played) ==
    IF i > Len(st.mLoadingSounds) THEN st
    ELSE LET loading == st.mLoadingSounds[i]
             loaded == st.mLoadedSoundBuffers[loading.mSoundId]
             sound == loading.mSound
             moved == [st EXCEPT !.mLoadingSounds[i].mSound = NoSound]
         IN IF loaded = Absent THEN commitLoaded(st, i + 1, played)
            ELSE IF dropsCancelled(st, sound)
            THEN commitLoaded(Log(moved, "dropCancelled", sound, loaded, TRUE),
                              i + 1, played)
            ELSE IF loaded = NullBuf
            THEN commitLoaded(Log(moved, "dropUnloaded", sound,
                                  loading.mSoundId, TRUE),
                              i + 1, played)
            ELSE LET s1 == stopPrevious(moved, loaded, loading.mPtr)
                     s2 == outputPlaySound(setCommitParams(s1, sound, loaded),
                                           sound, loaded, played[i])
                 IN commitLoaded(IF played[i]
                                 THEN commitSound(s2, loading.mPtr, sound,
                                                  loaded)
                                 ELSE s2,
                                 i + 1, played)

NoBuffers == [id \in SoundIds |-> Absent]

\* playLoadedSounds, after its waits
playLoadedSounds(st, played) ==
    IF st.mLoadingSounds = <<>> THEN st
    ELSE [commitLoaded(st, 1, played) EXCEPT
             !.mLoadedSoundBuffers = NoBuffers,
             !.mLoadingSounds = SelectSeq(@, LAMBDA v : v.mSound # NoSound)]

\* an end of an instance that leaves the use-count alone
releaseBuffer_noDecrement(st, sfx) == st

\* the end of an instance in updateSounds and in clear
releaseBuffer(st, sfx) ==
    [st EXCEPT !.mUses[sfx] = @ - 1,
               !.mUnusedBuffers = IF st.mUses[sfx] = 1
                                  THEN <<sfx>> \o @ ELSE @]

RECURSIVE updateList(_, _, _, _)
\* an updateSounds that leaves finished instances in the table
updateList_keepsFinished(st, ptr, i, duration) == st

\* the inner loop of updateSounds over the list of ptr from position i
updateList(st, ptr, i, duration) ==
    IF i > Len(st.mActiveSounds[ptr]) THEN st
    ELSE LET sound == st.mActiveSounds[ptr][i][1]
             sfx == st.mActiveSounds[ptr][i][2]
             s1 == IF /\ ptr # NoPtr
                      /\ st.snd[sound].is3D
                      /\ st.snd[sound].cull
                      /\ length2(st.mListenerPos, st.objPos[ptr])
                            > 2000 * 2000
                   THEN finishSound(st, sound) ELSE st
         IN IF ~isSoundPlaying(s1, sound)
            THEN LET s2 == finishSound(s1, sound)
                     s3 == [s2 EXCEPT
                              !.mUnderwaterSound =
                                  IF @ = sound THEN NoSound ELSE @,
                              !.mNearWaterSound =
                                  IF @ = sound THEN NoSound ELSE @,
                              !.mActiveSounds[ptr] = removeAt(@, i)]
                 IN updateList(releaseBuffer(s3, sfx), ptr, i, duration)
            ELSE updateList(updateSound([s1 EXCEPT !.snd[sound] =
                                             updateFade(@, duration)],
                                        sound),
                            ptr, i + 1, duration)

RECURSIVE updateActiveSounds(_, _, _)
\* the outer loop of updateSounds over the entities of mActiveSounds
updateActiveSounds(st, order, duration) ==
    IF order = <<>> THEN st
    ELSE updateActiveSounds(updateList(st, Head(order), 1, duration),
                            Tail(order), duration)

RECURSIVE updateSaySounds(_, _, _)
\* the loop of updateSounds over mActiveSaySounds
updateSaySounds(st, order, duration) ==
    IF order = <<>> THEN st
    ELSE LET ptr == Head(order)
             sound == st.mActiveSaySounds[ptr]
             s1 == IF sound = NoSound THEN st
                   ELSE IF ~st.bStreamPlaying[sound]
                   THEN [finishStream(st, sound)
                            EXCEPT !.mActiveSaySounds[ptr] = NoSound]
                   ELSE [st EXCEPT !.strm[sound] = updateFade(@, duration)]
         IN updateSaySounds(s1, Tail(order), duration)

RECURSIVE updateTracks(_, _, _)
\* the loop of updateSounds over mActiveTracks with trkiter at position i;
\* the body and the for statement both advance trkiter
updateTracks(st, i, duration) ==
    IF i = Len(st.mActiveTracks) + 1 THEN st
    ELSE IF i > Len(st.mActiveTracks) + 1
    THEN [st EXCEPT !.fault = "trkiter past end"]
    ELSE LET sound == st.mActiveTracks[i]
         IN IF ~st.bStreamPlaying[sound]
            THEN updateTracks([finishStream(st, sound) EXCEPT
                                  !.mActiveTracks = removeAt(@, i)],
                              i + 1, duration)
            ELSE updateTracks([st EXCEPT
                                  !.strm[sound] = updateFade(@, duration)],
                              i + 2, duration)

\* updateSounds calls startRandomTitle
needsTitle(st, duration) ==
    /\ st.mTimePassed + duration >= sMinUpdateInterval
    /\ ~isMusicPlaying(st)
    /\ st.mCurrentPlaylist # ""

\* updateSounds; roll is the dice of startRandomTitle
updateSounds(st, duration0, roll) ==
    IF st.mTimePassed + duration0 < sMinUpdateInterval
    THEN [st EXCEPT !.mTimePassed = @ + duration0]
    ELSE LET duration == st.mTimePassed + duration0
             s0 == [Log(st, "updateSounds", NoSound, "", TRUE)
                      EXCEPT !.mTimePassed = 0]
             s1 == IF ~isMusicPlaying(s0) /\ s0.mCurrentPlaylist # ""
                   THEN startRandomTitle(s0, roll) ELSE s0
             s2 == IF ~s1.mListenerUnderwater /\ s1.mUnderwaterSound # NoSound
                   THEN [finishSound(s1, s1.mUnderwaterSound)
                            EXCEPT !.mUnderwaterSound = NoSound]
                   ELSE s1
             s3 == updateMusic(s2, duration)
             s4 == updateActiveSounds(s3, PtrOrder, duration)
             s5 == updateSaySounds(s4, PtrOrder, duration)
             s6 == updateTracks(s5, 1, duration)
         IN IF s6.mListenerUnderwater /\ s6.mUnderwaterSound = NoSound
            THEN LET r == playSound(s6, "Underwater")
                 IN [r.st EXCEPT !.mUnderwaterSound = r.sound]
            ELSE s6

RECURSIVE clearList(_, _)
\* the inner loop of clear over one list of mActiveSounds
clearList(st, list) ==
    IF list = <<>> THEN st
    ELSE clearList(releaseBuffer(finishSound(st, Head(list)[1]),
                                 Head(list)[2]),
                   Tail(list))

RECURSIVE finishStreams(_, _)
finishStreams(st, list) ==
    IF list = <<>> THEN st
    ELSE finishStreams(finishStream(st, Head(list)), Tail(list))

\* clear, up to its waits: abortAll on the three ledgers
clearAbort(st) ==
    abortAll(abortAll(abortAll(st, st.mWaitingVoice), st.mWaitingMusic),
             st.mLoadingSounds)

\* waitForAll on the three ledgers returns
clearWaited(st) ==
    \A w \in {v.mWorkItem : v \in SeqToSet(st.mWaitingVoice)}
            \cup {m.mWorkItem : m \in SeqToSet(st.mWaitingMusic)}
            \cup {r.mWorkItem : r \in SeqToSet(st.mLoadingSounds)} :
        st.wItems[w].status = "done"

\* clear, after its waits
clearRest(st) ==
    LET s1 == stopMusic([st EXCEPT !.mWaitingVoice = <<>>,
                                   !.mWaitingMusic = <<>>,
                                   !.mLoadingSounds = <<>>])
        s2 == clearList(s1, Flatten(s1.mActiveSounds, PtrOrder))
        s3 == [s2 EXCEPT !.mActiveSounds = [p \in AllPtrs |-> <<>>],
                         !.mUnderwaterSound = NoSound,
                         !.mNearWaterSound = NoSound]
        s4 == finishStreams(s3, SelectSeq([k \in 1..Len(PtrOrder) |->
                                    s3.mActiveSaySounds[PtrOrder[k]]],
                                LAMBDA s : s # NoSound))
        s5 == finishStreams([s4 EXCEPT !.mActiveSaySounds =
                                            [p \in AllPtrs |-> NoSound]],
                            s4.mActiveTracks)
    IN [s5 EXCEPT !.mActiveTracks = <<>>, !.mPlaybackPaused = FALSE,
                  !.mPausedSoundTypes = [blocker \in Blockers |-> {}]]

\* pausePlayback
pausePlayback(st) ==
    IF st.mPlaybackPaused THEN st
    ELSE [Log(st, "pauseActiveDevice", NoSound, "", TRUE)
            EXCEPT !.mPlaybackPaused = TRUE, !.bDevicePaused = TRUE]

\* resumePlayback
resumePlayback(st) ==
    IF ~st.mPlaybackPaused THEN st
    ELSE [Log(st, "resumeActiveDevice", NoSound, "", TRUE)
            EXCEPT !.mPlaybackPaused = FALSE, !.bDevicePaused = FALSE]

\* the backend's pauseSounds(types) and resumeSounds(types)
outputPauseSounds(st, types) ==
    [Log(st, "pauseSounds", NoSound, "", TRUE)
        EXCEPT !.bPausedTypes = @ \cup types]

outputResumeSounds(st, types) ==
    [Log(st, "resumeSounds", NoSound, "", TRUE)
        EXCEPT !.bPausedTypes = @ \ types]

\* a resumeSounds that resumes every type of the mask
resumeSounds_resumesAll(st, blocker) ==
    IF ~st.mInitialized THEN st
    ELSE outputResumeSounds([st EXCEPT !.mPausedSoundTypes[blocker] = {}],
                            TypeMask)

\* resumeSounds: the types no other blocker has paused are resumed
resumeSounds(st, blocker) ==
    IF ~st.mInitialized THEN st
    ELSE LET s1 == [st EXCEPT !.mPausedSoundTypes[blocker] = {}]
             types == TypeMask \ UNION {s1.mPausedSoundTypes[currentBlocker] :
                                           currentBlocker \in Blockers \ {blocker}}
         IN outputResumeSounds(s1, types)

\* pauseSounds; types0 is the argument, flags outside the mask included
pauseSounds(st, blocker, types0) ==
    IF ~st.mInitialized THEN st
    ELSE LET s1 == IF st.mPausedSoundTypes[blocker] # {}
                   THEN resumeSounds(st, blocker) ELSE st
             types == types0 \cap TypeMask
         IN [outputPauseSounds(s1, types)
                EXCEPT !.mPausedSoundTypes[blocker] = types]

----------------------------------------------------------------------------
(* Work items *)

\* the result cache of the work item's kind already has its key
alreadyCreated(st, item) ==
    CASE item.kind = "sound" -> st.mLoadedSoundBuffers[item.arg] # Absent
      [] item.kind = "voice" -> item.arg \in st.mVoiceDecoders
      [] OTHER -> item.arg \in st.mMusicDecoders

\* a doWork that does not look at mAborted
returnsEarly_ignoresAbort(st, item) == alreadyCreated(st, item)

\* WorkItem::doWork up to the first lock of loadSound, createVoiceDecoder or
\* createMusicDecoder: TRUE if the work item returns there
returnsEarly(st, item) == item.aborted \/ alreadyCreated(st, item)

\* loadSound from loadSoundSync on
loadSound(st, soundId, loadOk) ==
    LET r == loadSoundSync(st, soundId, loadOk)
    IN [r.st EXCEPT !.mLoadedSoundBuffers[soundId] =
                        IF @ = Absent THEN r.sfx ELSE @]

\* createVoiceDecoder from loadVoice on
createVoiceDecoder(st, voicefile) ==
    IF ~loadVoice(voicefile) THEN st
    ELSE [st EXCEPT !.mVoiceDecoders = @ \cup {voicefile}]

\* createMusicDecoder from getDecoder on; the exception of open is not caught
createMusicDecoder(st, fileName) ==
    IF ~canOpen(fileName) THEN [st EXCEPT !.fault = "uncaught exception"]
    ELSE [st EXCEPT !.mMusicDecoders = @ \cup {fileName}]

\* the function of a work item
runItem(st, item, loadOk) ==
    CASE item.kind = "sound" -> loadSound(st, item.arg, loadOk)
      [] item.kind = "voice" -> createVoiceDecoder(st, item.arg)
      [] OTHER -> createMusicDecoder(st, item.arg)

\* mDeadline <= now
elapsed(r) == r.mDeadline <= 0

\* a wait for every request of the ledger, elapsed or not
waited_onAll(st, ledger) ==
    \A r \in SeqToSet(ledger) : st.wItems[r.mWorkItem].status = "done"

\* waitTillDone returns for every request of the ledger whose deadline has
\* elapsed
waited(st, ledger) ==
    \A r \in SeqToSet(ledger) :
        elapsed(r) => st.wItems[r.mWorkItem].status = "done"

\* the steady clock advances by one tick
tick(ledger) ==
    [i \in DOMAIN ledger |->
        [ledger[i] EXCEPT !.mDeadline = IF @ > 0 THEN @ - 1 ELSE 0]]

----------------------------------------------------------------------------
(* Initial state: a constructed SoundManager *)

Durations == {0, 30}

\* the fade times asked of fadeOutSound3D: shorter and longer than a frame
FadeTimes == {20, 60}

\* the state after the constructor; initialized is FALSE when sound is
\* disabled or the backend's init fails
Constructed(initialized) ==
    /\ mInitialized = initialized
    /\ mPlaybackPaused = FALSE
    /\ bDevicePaused = FALSE
    /\ mPausedSoundTypes = [blocker \in Blockers |-> {}]
    /\ bPausedTypes = {}
    /\ mBufferNameMap = {}
    /\ mHandle = [id \in Store |-> FALSE]
    /\ mUses = [id \in Store |-> 0]
    /\ mBufferCacheSize = 0
    /\ mUnusedBuffers = <<>>
    /\ mLoadedSoundBuffers = NoBuffers
    /\ mLoadingSounds = <<>>
    /\ mActiveSounds = [p \in AllPtrs |-> <<>>]
    /\ snd = [s \in Sounds |-> FreeSound]
    /\ bPlaying = [s \in Sounds |-> FALSE]
    /\ mUnderwaterSound = NoSound
    /\ mNearWaterSound = NoSound
    /\ mLastCell = NoCell
    /\ world = [cell |-> "c1", mId |-> "a", mVolume |-> 0,
                last |-> [mId |-> "", mVolume |-> 0], moves |-> 0]
    /\ mListenerUnderwater = FALSE
    /\ strm = [s \in Streams |-> FreeStream]
    /\ bStreamPlaying = [s \in Streams |-> FALSE]
    /\ mWaitingVoice = <<>>
    /\ mActiveWaitingVoice = <<>>
    /\ mActiveSaySounds = [p \in AllPtrs |-> NoSound]
    /\ mVoiceDecoders = {}
    /\ mWaitingMusic = <<>>
    /\ mMusicDecoders = {}
    /\ mMusic = NoSound
    /\ mNextMusic = ""
    /\ mLastPlayedMusic = ""
    /\ mCurrentPlaylist = ""
    /\ mMusicToPlay = [p \in Playlists |-> <<>>]
    /\ mActiveTracks = <<>>
    /\ wItems = [w \in Items |-> FreeItem]
    /\ workQueue = <<>>
    /\ objPos = [e \in AllPtrs \ {NoPtr} |-> 2000]
    /\ mListenerPos = 0
    /\ mTimePassed = 0
    /\ pc = "idle"
    /\ fault = ""
    /\ out = <<>>

\* a constructed SoundManager with an initialised backend
Init == Constructed(TRUE)

\* a constructed SoundManager, with or without a backend
InitOutput == \E initialized \in BOOLEAN : Constructed(initialized)

----------------------------------------------------------------------------
(* Calls of the game on the frame thread, between two frames.  After       *)
(* undefined behaviour nothing more is said about the run.                 *)

Idle == pc = "idle" /\ fault = ""

CallPlaySound ==
    /\ Idle /\ CanRequest(S)
    /\ \E soundId \in RequestIds : Commit(playSound(S, soundId).st)

\* playSound with an identifier the store lacks
CallPlaySoundUnknown ==
    /\ Idle /\ CanRequest(S)
    /\ \E soundId \in SoundIds \ Store : Commit(playSound(S, soundId).st)

CallPlaySound3D ==
    /\ Idle /\ CanRequest(S)
    /\ \E ptr \in Entities, soundId \in RequestIds :
         Commit(playSound3D(S, ptr, soundId, FALSE, FALSE).st)

\* playSound3D with either value of the RemoveAtDistance flag; the step
\* records what the call returned to its caller, against the entity it
\* was made for
PlaySound3DCall(ids) ==
    /\ Idle /\ CanRequest(S)
    /\ \E ptr \in Entities, soundId \in ids,
          removeAtDistance \in BOOLEAN :
         \E r \in {playSound3D(S, ptr, soundId, removeAtDistance, FALSE)} :
           Commit(Log(r.st,
                      IF removeAtDistance THEN "return.RemoveAtDistance"
                      ELSE "return.Normal",
                      r.sound, ptr, r.sound # NoSound))

CallPlaySound3DMode == PlaySound3DCall(RequestIds)

\* the same for one sound
CallPlaySound3DOne == PlaySound3DCall({"a"})

\* the world moves an entity along the line through the listener
EntityMoves ==
    /\ Idle
    /\ \E ptr \in Entities, pos \in Positions :
         /\ pos # objPos[ptr]
         /\ Commit([S EXCEPT !.objPos[ptr] = pos])

CallStopSound ==
    /\ Idle
    /\ \E sound \in OwnedSounds(S) : Commit(stopSound(S, sound))

\* fadeOutSound3D; a fade is asked for while the factors it leads to are
\* whole numbers of the model's volume unit
CallFadeOutSound3D ==
    /\ Idle
    /\ \A s \in Sounds : snd[s].mVolumeFactor \in {0, FullVolume \div 2,
                                                   FullVolume}
    /\ \E ptr \in Ptrs, soundId \in RequestIds, duration \in FadeTimes :
         Commit(fadeOutSound3D(S, ptr, soundId, duration))

CallStopSound3DId ==
    /\ Idle
    /\ \E ptr \in Ptrs, soundId \in RequestIds :
         Commit(stopSound3DId(S, ptr, soundId))

CallStopSound3D ==
    /\ Idle
    /\ \E ptr \in Ptrs : Commit(stopSound3D(S, ptr))

CallStopSoundCell ==
    /\ Idle
    /\ \E cell \in Cells : Commit(stopSoundCell(S, cell))

CallSay ==
    /\ Idle /\ CanSay(S)
    /\ \E ptr \in Entities, filename \in VoiceNames :
         Commit(say(S, ptr, filename))

\* say with one of two voice files that both can be opened
CallSayLine ==
    /\ Idle /\ CanSay(S)
    /\ \E ptr \in Entities, filename \in {"v1.wav", "v2.wav"} :
         Commit(say(S, ptr, filename))

CallSayNoPtr ==
    /\ Idle /\ CanSay(S)
    /\ \E filename \in VoiceNames : Commit(sayNoPtr(S, filename))

CallStopSay ==
    /\ Idle
    /\ \E ptr \in Ptrs : Commit(stopSay(S, ptr))

\* playSound3D and say for the entity that moves, one sound and one file
CallPlaySound3DMoving ==
    /\ Idle /\ CanRequest(S)
    /\ Commit(playSound3D(S, "e1", "a", FALSE, FALSE).st)

CallSayMoving ==
    /\ Idle /\ CanSay(S)
    /\ Commit(say(S, "e1", "v1.wav"))

\* updatePtr, for an entity that moves to another cell and back, MaxMoves
\* times at most
CallUpdatePtr ==
    /\ Idle /\ world.moves < MaxMoves
    /\ \E old \in {"e1", NewPtr}, updated \in {"e1", NewPtr} :
         /\ old # updated
         /\ Commit([updatePtr(S, old, updated) EXCEPT !.world.moves = @ + 1])

CallStreamMusic ==
    /\ Idle /\ CanStreamMusic(S)
    /\ \E filename \in MusicNames : Commit(streamMusic(S, filename))

\* playPlaylist
CallPlayPlaylist ==
    /\ Idle /\ CanStreamMusic(S)
    /\ \E playlist \in PlaylistNames, roll \in 0..2 :
         /\ roll < Len(mMusicFiles(playlist))
         /\ Commit(playPlaylist(S, playlist, roll))

CallStopMusic ==
    /\ Idle
    /\ Commit(stopMusic(S))

CallPlayTrack ==
    /\ Idle /\ FreeStreams(S) # {}
    /\ \E played \in BOOLEAN, where \in 1..(Len(mActiveTracks) + 1) :
         Commit(playTrack(S, played, where))

CallStopTrack ==
    /\ Idle
    /\ \E stream \in SeqToSet(mActiveTracks) : Commit(stopTrack(S, stream))

CallPausePlayback ==
    /\ Idle
    /\ Commit(pausePlayback(S))

CallResumePlayback ==
    /\ Idle
    /\ Commit(resumePlayback(S))

CallPauseSounds ==
    /\ Idle
    /\ \E blocker \in Blockers, types \in SUBSET Flags :
         Commit(pauseSounds(S, blocker, types))

CallResumeSounds ==
    /\ Idle
    /\ \E blocker \in Blockers : Commit(resumeSounds(S, blocker))

\* clear up to its waits
CallClear ==
    /\ Idle
    /\ Commit([clearAbort(S) EXCEPT !.pc = "clear"])

\* clear once waitForAll has returned
ClearReturns ==
    /\ pc = "clear" /\ fault = "" /\ clearWaited(S)
    /\ Commit([clearRest(S) EXCEPT !.pc = "idle"])

----------------------------------------------------------------------------
(* update(duration): the three drains, then updateSounds *)

\* every waitTillDone of the three drains returns
drainWaited(st) ==
    /\ waited(st, st.mWaitingVoice)
    /\ waited(st, st.mActiveWaitingVoice)
    /\ st.mWaitingMusic # <<>>
         => waited(st, <<st.mWaitingMusic[Len(st.mWaitingMusic)]>>)
    /\ waited(st, st.mLoadingSounds)

\* update() is called and blocks in a waitTillDone of its drains
FrameWaits ==
    /\ Idle /\ mInitialized /\ ~mPlaybackPaused
    /\ ~drainWaited(S)
    /\ Commit([S EXCEPT !.pc = "wait"])

\* playAllVoicesFromCreatedDecoders, playMusicFromCreatedDecoder and
\* playLoadedSounds
FrameDrain ==
    /\ pc \in {"idle", "wait"} /\ fault = ""
    /\ mInitialized /\ ~mPlaybackPaused
    /\ drainWaited(S)
    /\ mMusic = NoSound /\ mWaitingMusic # <<>> => FreeStreams(S) # {}
    /\ \E voicePlayed \in [mVoiceDecoders -> BOOLEAN],
          musicPlayed \in IF mWaitingMusic = <<>> THEN {TRUE} ELSE BOOLEAN,
          played \in [DOMAIN mLoadingSounds -> BOOLEAN] :
         Commit([playLoadedSounds(
                    playMusicFromCreatedDecoder(
                        playAllVoicesFromCreatedDecoders(S, voicePlayed),
                        musicPlayed),
                    played)
                 EXCEPT !.pc = "update"])

\* updateSounds, and where update() goes on from there
UpdateSoundsStep(next) ==
    /\ pc = "update" /\ fault = ""
    /\ \E duration \in Durations, roll \in 0..2 :
         /\ IF needsTitle(S, duration)
            THEN roll < rollSize(S) /\ CanStreamMusic(S)
            ELSE roll = 0
         /\ mNextMusic # "" => CanStreamMusic(S)
         /\ needsTitle(S, duration) /\ mNextMusic # ""
              => Cardinality(FreeItems(S)) >= 2
         /\ mListenerUnderwater => CanRequest(S)
         /\ Commit([updateSounds(S, duration, roll) EXCEPT !.pc = next])

\* the rest of update() while no game is running
FrameUpdateSounds == UpdateSoundsStep("idle")

----------------------------------------------------------------------------
(* The worker thread of the work queue *)

WorkerIdle == \A w \in Items : wItems[w].status # "running"

\* the worker takes the next work item and runs it up to its first lock
WorkerBegin ==
    /\ fault = "" /\ workQueue # <<>> /\ WorkerIdle
    /\ \E w \in {Head(workQueue)} :
         Commit([S EXCEPT !.workQueue = Tail(@),
                          !.wItems[w].status =
                              IF returnsEarly(S, wItems[w])
                              THEN "done" ELSE "running"])

\* the worker runs the rest of the work item
WorkerFinish ==
    /\ fault = ""
    /\ \E w \in Items, loadOk \in BOOLEAN :
         /\ wItems[w].status = "running"
         /\ Commit([runItem(S, wItems[w], loadOk)
                       EXCEPT !.wItems[w].status = "done"])

\* the worker takes the next work item and runs all of it, while no call of
\* the frame thread comes between
WorkerRun ==
    /\ fault = "" /\ workQueue # <<>> /\ WorkerIdle
    /\ \E w \in {Head(workQueue)}, loadOk \in BOOLEAN :
         Commit([(IF returnsEarly(S, wItems[w]) THEN S
                  ELSE runItem(S, wItems[w], loadOk))
                    EXCEPT !.workQueue = Tail(workQueue),
                           !.wItems[w].status = "done"])

----------------------------------------------------------------------------
(* The world outside *)

\* the steady clock advances
Tick ==
    /\ fault = ""
    /\ \E r \in SeqToSet(mLoadingSounds) \cup Voices(S)
                    \cup SeqToSet(mWaitingMusic) : ~elapsed(r)
    /\ Commit([S EXCEPT !.mLoadingSounds = tick(@),
                        !.mWaitingVoice = tick(@),
                        !.mActiveWaitingVoice = tick(@),
                        !.mWaitingMusic = tick(@)])

\* a sound reaches its end at the backend
SoundEnds ==
    /\ fault = ""
    /\ \E sound \in Sounds :
        /\ bPlaying[sound]
        /\ Commit([S EXCEPT !.bPlaying[sound] = FALSE])

\* a stream reaches its end at the backend
StreamEnds ==
    /\ fault = ""
    /\ \E stream \in Streams :
        /\ bStreamPlaying[stream]
        /\ Commit([S EXCEPT !.bStreamPlaying[stream] = FALSE])

----------------------------------------------------------------------------
(* Specifications *)

\* sounds: requests, stops, the frame update, the worker
Next ==
    \/ CallPlaySound
    \/ CallPlaySound3D
    \/ CallStopSound
    \/ CallStopSound3DId
    \/ FrameDrain
    \/ FrameUpdateSounds
    \/ WorkerRun
    \/ SoundEnds

Spec == Init /\ [][Next]_vars

\* sounds and clear
NextClear ==
    \/ CallPlaySound
    \/ CallStopSound
    \/ CallClear
    \/ ClearReturns
    \/ FrameDrain
    \/ FrameUpdateSounds
    \/ WorkerBegin
    \/ WorkerFinish
    \/ SoundEnds

SpecClear == Init /\ [][NextClear]_vars

\* voice lines
NextVoice ==
    \/ CallSay
    \/ CallSayNoPtr
    \/ CallStopSay
    \/ FrameDrain
    \/ FrameUpdateSounds
    \/ WorkerBegin
    \/ WorkerFinish
    \/ Tick
    \/ StreamEnds

SpecVoice == Init /\ [][NextVoice]_vars

\* music and tracks
NextMusic ==
    \/ CallStreamMusic
    \/ CallStopMusic
    \/ CallPlayTrack
    \/ CallStopTrack
    \/ FrameDrain
    \/ FrameUpdateSounds
    \/ WorkerBegin
    \/ WorkerFinish
    \/ Tick
    \/ StreamEnds

SpecMusic == Init /\ [][NextMusic]_vars

\* a playlist whose titles follow one another as each comes to its end
NextPlaylist ==
    \/ CallPlayPlaylist
    \/ CallStreamMusic
    \/ FrameDrain
    \/ FrameUpdateSounds
    \/ WorkerRun
    \/ StreamEnds

SpecPlaylist == Init /\ [][NextPlaylist]_vars

\* an update() whose updateSounds is not held back by the update interval
FrameUpdateRuns ==
    FrameUpdateSounds /\ \E i \in DOMAIN out' : out'[i].op = "updateSounds"

\* music that follows music: update() is called again and again, its time
\* goes on, and the worker runs whatever is queued
NextAdvance ==
    \/ CallStreamMusic
    \/ FrameDrain
    \/ FrameUpdateSounds
    \/ WorkerRun
    \/ StreamEnds

SpecAdvance ==
    /\ Init /\ [][NextAdvance]_vars
    /\ WF_vars(FrameDrain)
    /\ SF_vars(FrameUpdateRuns)
    /\ WF_vars(WorkerRun)

\* sounds, clear and the clock of the deadlines
NextWait ==
    \/ CallPlaySound
    \/ CallClear
    \/ ClearReturns
    \/ FrameWaits
    \/ FrameDrain
    \/ FrameUpdateSounds
    \/ WorkerBegin
    \/ WorkerFinish
    \/ Tick

SpecWait == Init /\ [][NextWait]_vars

\* the calls of the game with and without a backend, the worker at rest
NextOutput ==
    \/ CallPlaySound
    \/ CallPlaySound3D
    \/ CallPlayTrack
    \/ CallSay
    \/ CallStreamMusic
    \/ CallStopSound3D
    \/ CallStopSoundCell
    \/ CallStopMusic
    \/ CallPausePlayback
    \/ CallResumePlayback
    \/ CallClear
    \/ ClearReturns
    \/ FrameDrain
    \/ FrameUpdateSounds

SpecOutput == InitOutput /\ [][NextOutput]_vars

\* sounds that load, fail to load or are not in the store
NextUnresolved ==
    \/ CallPlaySound
    \/ CallPlaySoundUnknown
    \/ CallStopSound
    \/ FrameDrain
    \/ FrameUpdateSounds
    \/ WorkerRun
    \/ SoundEnds

SpecUnresolved == Init /\ [][NextUnresolved]_vars

\* positional sounds requested for an entity that moves about the listener
NextCull ==
    \/ CallPlaySound3DMode
    \/ EntityMoves
    \/ FrameDrain
    \/ FrameUpdateSounds
    \/ WorkerRun

SpecCull == Init /\ [][NextCull]_vars

\* sounds of an entity that are faded out while they play
NextFade ==
    \/ CallPlaySound3D
    \/ CallFadeOutSound3D
    \/ FrameDrain
    \/ FrameUpdateSounds
    \/ WorkerRun

SpecFade == Init /\ [][NextFade]_vars

\* an entity with sounds and voice lines changes its Ptr
NextPtr ==
    \/ CallPlaySound3DMoving
    \/ CallSayMoving
    \/ CallUpdatePtr
    \/ FrameDrain
    \/ FrameUpdateSounds
    \/ WorkerRun

SpecPtr == Init /\ [][NextPtr]_vars

\* the voice lines of an entity, one after the other
NextSay ==
    \/ CallSayLine
    \/ CallStopSay
    \/ FrameDrain
    \/ FrameUpdateSounds
    \/ WorkerRun
    \/ StreamEnds

SpecSay == Init /\ [][NextSay]_vars

\* sounds and voice lines are requested, and clear() discards them
NextReset ==
    \/ CallPlaySound3DMoving
    \/ CallSayMoving
    \/ CallClear
    \/ ClearReturns
    \/ FrameDrain
    \/ FrameUpdateSounds
    \/ WorkerRun

SpecReset == Init /\ [][NextReset]_vars

\* the blockers pause and resume sound types
NextPause ==
    \/ CallPauseSounds
    \/ CallResumeSounds

SpecPause == Init /\ [][NextPause]_vars

----------------------------------------------------------------------------
(* The buffer cache *)

\* the backend calls and log lines of the last step that are of operation op
Calls(op) == {i \in DOMAIN out : out[i].op = op}

----------------------------------------------------------------------------
(* Use-counts and the pool of unused buffers *)

\* the entries of the active-sound table that reference buffer b
EntriesOf(b) == {p \in ActivePairs(S) : p[2] = b}

C8_PoolIsUnusedResident ==
    /\ \A i, j \in DOMAIN mUnusedBuffers :
          i # j => mUnusedBuffers[i] # mUnusedBuffers[j]
    /\ SeqToSet(mUnusedBuffers) = {b \in Store : mHandle[b] /\ mUses[b] = 0}
    /\ \A i \in Calls("unloadSound") : mUses[out[i].buf] = 0

----------------------------------------------------------------------------
(* Requests, cancellation and the lifecycle of instances *)

PlayOps == {"playSound", "playSound3D"}

\* the positions in the list of ptr of the entries that reference buffer b
EntriesAt(ptr, b) ==
    {i \in DOMAIN mActiveSounds[ptr] : mActiveSounds[ptr][i][2] = b}

\* the positions of the entries of buffer b for ptr still playing at the backend
PlayingAt(ptr, b) ==
    {i \in EntriesAt(ptr, b) : bPlaying[mActiveSounds[ptr][i][1]]}

\* the positions in the list of ptr of the entries of buffer b that the last
\* step has committed
CommittedAt(ptr, b) ==
    {i \in EntriesAt(ptr, b) :
        \E k \in DOMAIN out : /\ out[k].op \in PlayOps /\ out[k].ok
                              /\ out[k].snd = mActiveSounds[ptr][i][1]}

\* every earlier entry of the buffer and entity of an instance the last step
\* committed was finished at the backend before that commit
EarlierFinished ==
    \A ptr \in Ptrs, k \in DOMAIN out :
        out[k].op \in PlayOps /\ out[k].ok
            => \A i, j \in EntriesAt(ptr, out[k].buf) :
                  mActiveSounds[ptr][j][1] = out[k].snd /\ i < j
                      => /\ ~bPlaying[mActiveSounds[ptr][i][1]]
                         /\ \E f \in 1..(k - 1) :
                               /\ out[f].op = "finishSound"
                               /\ out[f].snd = mActiveSounds[ptr][i][1]

\* the positions in the list of ptr of the entries of buffer b that the last
\* step has finished at the backend: stopSound(sfx, ptr) of a later request
StoppedAt(ptr, b) ==
    {i \in EntriesAt(ptr, b) :
        \E f \in Calls("finishSound") : out[f].snd = mActiveSounds[ptr][i][1]}

\* an updateSounds that is not throttled runs in this step
UpdateRuns == pc = "update" /\ pc' = "idle" /\ Calls("updateSounds")' # {}

LoadingInstances == {mLoadingSounds[i].mSound : i \in DOMAIN mLoadingSounds}

\* every pending request is for a cancelled instance
AllCancelled == \A s \in LoadingInstances : snd[s].state = "LoadCancelled"

\* the pending requests for a cancelled instance whose result is in the cache
CancelledWithResult ==
    {i \in DOMAIN mLoadingSounds :
        /\ snd[mLoadingSounds[i].mSound].state = "LoadCancelled"
        /\ mLoadedSoundBuffers[mLoadingSounds[i].mSoundId] # Absent}

\* C3: a cancelled instance is never passed to the backend's playSound or
\* playSound3D, never set Playing and never in the active-sound table; the
\* drain drops every cancelled request whose result it finds, and a drain of
\* cancelled requests only changes no use-count and not the pool
C3_CancelledNeverCommitted ==
    [][/\ \A k \in DOMAIN out' :
            out'[k].op \in PlayOps \cup {"setPlaying"}
                => out'[k].state = "Loading"
       /\ \A ptr \in Ptrs : \A i \in DOMAIN mActiveSounds'[ptr] :
            snd'[mActiveSounds'[ptr][i][1]].state = "Playing"
       /\ (pc = "idle" /\ pc' = "update")
            => /\ Cardinality(Calls("dropCancelled")')
                     = Cardinality(CancelledWithResult)
               /\ \A i \in DOMAIN mLoadingSounds' :
                     snd'[mLoadingSounds'[i].mSound].state = "LoadCancelled"
                         => mLoadedSoundBuffers[mLoadingSounds'[i].mSoundId]
                               = Absent
               /\ AllCancelled
                     => mUses' = mUses /\ mUnusedBuffers' = mUnusedBuffers]_vars

\* the drain has dropped a cancelled instance whose buffer was loaded
C3_DroppedLoaded ==
    /\ pc = "update"
    /\ \E k \in DOMAIN out :
         out[k].op = "dropCancelled" /\ out[k].buf \in Store /\ out[k].res

\* C9: between two init() calls the state of an instance changes only from
\* Loading to Playing or from Loading to LoadCancelled: setPlaying is called
\* on instances in state Loading only, and cancelLoading changes the state
\* of instances in state Loading only
C9_Lifecycle ==
    /\ \A k \in DOMAIN out :
          out[k].op \in {"setPlaying", "setStreamPlaying"}
              => out[k].state = "Loading"
    /\ \A k \in DOMAIN out :
          out[k].op = "cancelLoading"
              => out[k].state \in {"Loading", "LoadCancelled"}
    /\ \A s \in LoadingInstances : snd[s].state \in {"Loading", "LoadCancelled"}
    /\ \A ptr \in Ptrs : \A i \in DOMAIN mActiveSounds[ptr] :
          snd[mActiveSounds[ptr][i][1]].state = "Playing"

\* one instance has gone from Loading to Playing, another to LoadCancelled
C9_BothTransitions ==
    /\ \E k \in Calls("cancelLoading") : out[k].state = "Loading"
    /\ \E s \in Sounds : snd[s].state = "Playing"

\* C10: no instance is in state Playing after the backend call that starts
\* it has returned failure
C10_PlayingOnlyIfAccepted ==
    /\ \A k \in DOMAIN out :
          out[k].op \in PlayOps /\ ~out[k].ok
              => snd[out[k].snd].state # "Playing"
    /\ \A k \in DOMAIN out :
          out[k].op = "streamSound" /\ ~out[k].ok
              => strm[out[k].snd].state # "Playing"

----------------------------------------------------------------------------
(* The ledgers and the work queue *)

\* the pending requests of the three ledgers
Pending ==
    SeqToSet(mLoadingSounds) \cup SeqToSet(mWaitingVoice)
        \cup SeqToSet(mActiveWaitingVoice) \cup SeqToSet(mWaitingMusic)

\* the work items of the pending requests whose deadline has elapsed
ElapsedItems == {r.mWorkItem : r \in {q \in Pending : elapsed(q)}}

\* C4: a request whose deadline has elapsed when update begins is no longer
\* in its ledger when the drains of that update have run
C4_BoundedStaleness ==
    [][(pc = "idle" /\ pc' = "update") => ElapsedItems' = {}]_vars

\* the work items that are submitted and not finished
Unfinished == {w \in Items : wItems[w].status \in {"queued", "running"}}

\* C5: no two unfinished work items are for the same sound identifier or
\* resource path
C5_OneItemPerPath ==
    \A v, w \in Unfinished :
        wItems[v].kind = wItems[w].kind /\ wItems[v].arg = wItems[w].arg
            => v = w

\* the worker thread takes a step of a work item
WorkerStep ==
    \/ Len(workQueue') < Len(workQueue)
    \/ Cardinality({w \in Items : wItems'[w].status = "running"})
          < Cardinality({w \in Items : wItems[w].status = "running"})

\* C6: a step of the worker thread calls no operation of the backend and
\* changes nothing but the result caches and the work queue
C6_WorkerTouchesCachesOnly ==
    [][WorkerStep =>
          /\ out' = <<>>
          /\ UNCHANGED <<mBufferNameMap, mHandle, mUses, mBufferCacheSize,
                         mUnusedBuffers, mLoadingSounds, mActiveSounds,
                         mWaitingVoice, mActiveWaitingVoice, mWaitingMusic,
                         mActiveSaySounds, mActiveTracks, mMusic, snd, strm,
                         bPlaying, bStreamPlaying>>]_vars

----------------------------------------------------------------------------
(* Capacity exhaustion *)

RECURSIVE SizeOf(_)
\* the bytes the backend holds for a set of buffers
SizeOf(set) ==
    IF set = {} THEN 0
    ELSE LET b == CHOOSE x \in set : TRUE
         IN BufSize(b) + SizeOf(set \ {b})

Resident == {b \in Store : mHandle[b]}

\* C11: a load that takes the total above the maximum while the pool is
\* empty still yields the loaded, resident descriptor; nothing is unloaded
\* and the total is the total before plus the size of the buffer, the sum of
\* the sizes of all resident buffers
C11_OverBudgetIsSoft ==
    [][\A i \in Calls("loadSound")' :
          /\ out'[i].ok
          /\ mUnusedBuffers = <<>>
          /\ mBufferCacheSize + BufSize(out'[i].buf) > mBufferCacheMax
          => /\ Calls("warnNoUnused")' # {}
             /\ Calls("unloadSound")' = {}
             /\ mLoadedSoundBuffers'[out'[i].buf] = out'[i].buf
             /\ mHandle'[out'[i].buf]
             /\ Resident' = Resident \cup {out'[i].buf}
             /\ mBufferCacheSize' = mBufferCacheSize + BufSize(out'[i].buf)
             /\ mBufferCacheSize' = SizeOf(Resident')]_vars

\* a load has taken the total above the maximum with every other resident
\* buffer referenced: the warning is logged and nothing was unloaded
C11_LoadedOverBudget ==
    /\ \E i \in Calls("loadSound") :
         /\ out[i].ok
         /\ mLoadedSoundBuffers[out[i].buf] = out[i].buf
         /\ \E b \in Resident \ {out[i].buf} : mUses[b] > 0
         /\ \A b \in Resident \ {out[i].buf} : mUses[b] > 0
    /\ Calls("warnNoUnused") # {}
    /\ Calls("unloadSound") = {}
    /\ mBufferCacheSize > mBufferCacheMax
    /\ mBufferCacheSize = SizeOf(Resident)

----------------------------------------------------------------------------
(* One table entry per entity and buffer *)

\* C12 as stated: between the operations of the sound manager the
\* active-sound table has at most one entry for each entity key and buffer
C12_OneEntryPerEntityBuffer ==
    pc = "idle"
        => \A ptr \in Ptrs, b \in Store : Cardinality(EntriesAt(ptr, b)) <= 1

\* C12 as amended: the active-sound table has at most one entry for each
\* entity key and buffer whose instance is playing at the backend, and at
\* most one entry at all when update() returns from an updateSounds that
\* was not throttled
C12_OnePlayingEntry ==
    \A ptr \in Ptrs, b \in Store :
        /\ Cardinality(PlayingAt(ptr, b)) <= 1
        /\ pc = "idle" /\ Calls("updateSounds") # {}
              => Cardinality(EntriesAt(ptr, b)) <= 1

\* update() has returned from a throttled updateSounds with the stopped
\* earlier instance of a buffer still in the list of its entity
C12_StoppedEntryKept ==
    /\ pc = "idle"
    /\ \E ptr \in Ptrs, b \in Store :
         /\ Cardinality(EntriesAt(ptr, b)) = 2
         /\ Cardinality(PlayingAt(ptr, b)) = 1

----------------------------------------------------------------------------
(* Aborted work items *)

AbortedItems == {w \in Items : wItems[w].aborted}
RunningItems == {w \in Items : wItems[w].status = "running"}

\* the worker takes the work item at the head of the queue in this step
WorkerTakes == workQueue # <<>> /\ Len(workQueue') < Len(workQueue)

\* C13: a work item aborted before the worker takes it runs none of its
\* body, and abort() changes nothing but the flag: in both steps the result
\* caches, the buffer registry and the backend stay as they are
C13_AbortedRunsNothing ==
    [][(\/ WorkerTakes /\ wItems[Head(workQueue)].aborted
        \/ Cardinality(AbortedItems') > Cardinality(AbortedItems))
          => /\ RunningItems' = {} \/ ~WorkerTakes
             /\ Cardinality(RunningItems') = Cardinality(RunningItems)
             /\ out' = <<>>
             /\ UNCHANGED <<mLoadedSoundBuffers, mVoiceDecoders,
                            mMusicDecoders, mBufferNameMap, mHandle, mUses,
                            mBufferCacheSize, mUnusedBuffers, bPlaying,
                            bStreamPlaying>>]_vars

\* clear waits for a work item it aborted in the queue: the worker has taken
\* the item and no result of it is in the cache
C13_SkippedAborted ==
    /\ pc = "clear" /\ workQueue = <<>> /\ RunningItems = {}
    /\ \E w \in AbortedItems :
         /\ wItems[w].status = "done"
         /\ wItems[w].kind = "sound"
         /\ mLoadedSoundBuffers[wItems[w].arg] = Absent

\* C14: a work item aborted while its body runs commits no result: the step
\* in which it completes leaves the three result caches as they are
C14_AbortedCommitsNothing ==
    [][(/\ \E w \in RunningItems : wItems[w].aborted
        /\ RunningItems' = {})
          => UNCHANGED <<mLoadedSoundBuffers, mVoiceDecoders,
                         mMusicDecoders>>]_vars

----------------------------------------------------------------------------
(* The waits of the frame thread *)

\* the pending requests whose work item has not finished
Unserved == {r \in Pending : wItems[r.mWorkItem].status # "done"}

\* the pending requests update() looks at for its waits: every voice and
\* sound request, and the last music request
Awaited ==
    SeqToSet(mLoadingSounds) \cup SeqToSet(mWaitingVoice)
        \cup SeqToSet(mActiveWaitingVoice)
        \cup (IF mWaitingMusic = <<>> THEN {}
              ELSE {mWaitingMusic[Len(mWaitingMusic)]})

----------------------------------------------------------------------------
(* A backend that is not initialised *)

\* the operations of the log that are calls of the backend
BackendOps ==
    {"playSound", "playSound3D", "finishSound", "loadSound", "unloadSound",
     "streamSound", "finishStream", "pauseActiveDevice",
     "resumeActiveDevice"}

\* C16: without an initialised backend no operation of the backend is
\* called, no instance or stream is handed out, no request is entered in a
\* ledger and no work item is submitted
C16_DisabledStaysSilent ==
    ~mInitialized
        => /\ \A i \in DOMAIN out : out[i].op \notin BackendOps
           /\ \A s \in Sounds : snd[s].state = "Free"
           /\ \A s \in Streams : strm[s].state = "Free"
           /\ Pending = {}
           /\ workQueue = <<>>
           /\ \A w \in Items : wItems[w].status = "free"

----------------------------------------------------------------------------
(* Requests whose sound does not resolve *)

\* the pending requests by what playLoadedSounds finds for them: nothing, a
\* null descriptor for an instance that is not cancelled, or a descriptor for
\* such an instance
Unanswered ==
    {i \in DOMAIN mLoadingSounds :
        mLoadedSoundBuffers[mLoadingSounds[i].mSoundId] = Absent}
Unresolved ==
    {i \in DOMAIN mLoadingSounds :
        /\ mLoadedSoundBuffers[mLoadingSounds[i].mSoundId] = NullBuf
        /\ snd[mLoadingSounds[i].mSound].state # "LoadCancelled"}
Playable ==
    {i \in DOMAIN mLoadingSounds :
        /\ mLoadedSoundBuffers[mLoadingSounds[i].mSoundId] \in Store
        /\ snd[mLoadingSounds[i].mSound].state # "LoadCancelled"}

\* the buffers of the active-sound table, entity by entity
TableBuffers ==
    [p \in AllPtrs |->
        [i \in DOMAIN mActiveSounds[p] |-> mActiveSounds[p][i][2]]]

PlayCalls == {k \in DOMAIN out : out[k].op \in PlayOps}

\* playLoadedSounds runs in this step
DrainRuns == pc # "update" /\ pc' = "update"

\* C17: the work item of a request records an identifier the store lacks,
\* and a buffer the backend fails to load, as a null descriptor; the drain
\* removes every request it finds a result for, calls the backend's play
\* only for descriptors that are not null, and when it finds no such
\* descriptor calls no backend operation and leaves the active-sound table
\* and the use-counts as they are; no error is raised
C17_UnresolvedIsSilent ==
    [][/\ (/\ WorkerTakes
           /\ wItems[Head(workQueue)].kind = "sound"
           /\ ~wItems[Head(workQueue)].aborted
           /\ mLoadedSoundBuffers[wItems[Head(workQueue)].arg] = Absent)
            => /\ wItems[Head(workQueue)].arg \notin Store
                    => /\ mLoadedSoundBuffers'[wItems[Head(workQueue)].arg]
                              = NullBuf
                       /\ Calls("loadSound")' = {}
               /\ \A i \in Calls("loadSound")' :
                     ~out'[i].ok
                         => mLoadedSoundBuffers'[out'[i].buf] = NullBuf
               /\ fault' = ""
       /\ DrainRuns
            => /\ Cardinality(PlayCalls') = Cardinality(Playable)
               /\ Cardinality(Calls("dropUnloaded")') = Cardinality(Unresolved)
               /\ \A k \in PlayCalls' :
                     mLoadedSoundBuffers[out'[k].buf] = out'[k].buf
               /\ Len(mLoadingSounds') = Cardinality(Unanswered)
               /\ fault' = ""
               /\ Playable = {}
                    => /\ \A k \in DOMAIN out' : out'[k].op \notin BackendOps
                       /\ TableBuffers' = TableBuffers
                       /\ mUses' = mUses]_vars

\* the drain has dropped a request for an identifier the store lacks and a
\* request whose buffer the backend failed to load, and played nothing
C17_DroppedUnresolved ==
    /\ pc = "update"
    /\ PlayCalls = {}
    /\ mLoadingSounds = <<>>
    /\ \E k \in Calls("dropUnloaded") : out[k].buf \notin Store
    /\ \E k \in Calls("dropUnloaded") : out[k].buf \in Store

----------------------------------------------------------------------------
(* loadSoundSync without a result *)

\* the worker runs loadSoundSync in this step, for an identifier the store
\* lacks or with the backend failing to load
LoadFails ==
    /\ WorkerTakes
    /\ wItems[Head(workQueue)].kind = "sound"
    /\ ~wItems[Head(workQueue)].aborted
    /\ mLoadedSoundBuffers[wItems[Head(workQueue)].arg] = Absent
    /\ \/ wItems[Head(workQueue)].arg \notin Store
       \/ \E i \in Calls("loadSound")' : ~out'[i].ok

\* C18 as stated: a loadSoundSync for an identifier the store lacks or with
\* a failing backend load returns none and leaves the name map, the cache
\* total and the pool as they were
C18_FailedLoadChangesNothing ==
    [][LoadFails
          => /\ mLoadedSoundBuffers'[wItems[Head(workQueue)].arg] = NullBuf
             /\ mBufferNameMap' = mBufferNameMap
             /\ mBufferCacheSize' = mBufferCacheSize
             /\ mUnusedBuffers' = mUnusedBuffers]_vars

\* C18 as amended: such a loadSoundSync returns none and leaves the cache
\* total, the pool and the handles as they were; the name map gets no entry
\* but the descriptors of the records of the store, which the first call
\* registers, and is left as it was once it is filled
C18_FailedLoadRegistersNoPhantom ==
    [][LoadFails
          => /\ mLoadedSoundBuffers'[wItems[Head(workQueue)].arg] = NullBuf
             /\ mBufferNameMap' = IF mBufferNameMap = {} THEN Store
                                  ELSE mBufferNameMap
             /\ wItems[Head(workQueue)].arg \notin Store
                  => wItems[Head(workQueue)].arg \notin mBufferNameMap'
             /\ mBufferCacheSize' = mBufferCacheSize
             /\ mUnusedBuffers' = mUnusedBuffers
             /\ mHandle' = mHandle]_vars

\* a load has failed and one for an identifier the store lacks has returned
\* none while buffers were resident: the results are null descriptors
C18_NoneRecorded ==
    /\ mLoadedSoundBuffers["x"] = NullBuf
    /\ \E b \in Store : mLoadedSoundBuffers[b] = NullBuf
    /\ mBufferCacheSize > 0
    /\ mBufferNameMap = Store

----------------------------------------------------------------------------
(* Distance culling of positional requests *)

\* the returns of playSound3D recorded by the last step
Returns == {k \in DOMAIN out : out[k].op \in {"return.RemoveAtDistance",
                                               "return.Normal"}}

\* the entity of a recorded return stands beyond the 2000 radius
Beyond(ptr) == length2(mListenerPos, objPos[ptr]) > 2000 * 2000

\* C19: playSound3D returns no instance exactly when the request carries
\* RemoveAtDistance and the squared distance of the entity from the listener
\* exceeds 2000*2000, and then changes nothing; a request at distance 2000
\* or less, or without the flag, creates an instance in state Loading with a
\* request in the ledger and a work item in the queue
C19_CulledExactlyBeyondRadius ==
    [][\A k \in Returns' :
         /\ ~out'[k].ok <=> (/\ out'[k].op = "return.RemoveAtDistance"
                             /\ Beyond(out'[k].buf))
         /\ ~out'[k].ok
              => /\ out'[k].snd = NoSound
                 /\ Len(out') = 1
                 /\ snd' = snd
                 /\ mLoadingSounds' = mLoadingSounds
                 /\ wItems' = wItems
                 /\ workQueue' = workQueue
         /\ out'[k].ok
              => /\ snd'[out'[k].snd].state = "Loading"
                 /\ snd'[out'[k].snd].cull
                      = (out'[k].op = "return.RemoveAtDistance")
                 /\ Len(mLoadingSounds') = Len(mLoadingSounds) + 1
                 /\ mLoadingSounds'[Len(mLoadingSounds')].mSound = out'[k].snd
                 /\ mLoadingSounds'[Len(mLoadingSounds')].mPtr = out'[k].buf
                 /\ Len(workQueue') = Len(workQueue) + 1
                 /\ workQueue'[Len(workQueue')]
                      = mLoadingSounds'[Len(mLoadingSounds')].mWorkItem
                 /\ wItems'[workQueue'[Len(workQueue')]].status = "queued"]_vars

\* a request with RemoveAtDistance for an entity 3000 from a listener at the
\* origin has been rejected
C19_RejectedAt3000 ==
    /\ mListenerPos = 0
    /\ \E k \in Returns :
         /\ out[k].op = "return.RemoveAtDistance"
         /\ objPos[out[k].buf] = 3000
         /\ ~out[k].ok

----------------------------------------------------------------------------
(* Fade-out *)

\* the instances of the active-sound table
TableSounds ==
    UNION {{mActiveSounds[ptr][i][1] : i \in DOMAIN mActiveSounds[ptr]} :
               ptr \in Ptrs}

Min(a, b) == IF a < b THEN a ELSE b

\* the entry has faded out and the backend has been given its volume
Silent(e) ==
    /\ snd[e[1]].mFadeOutTime = 0
    /\ getRealVolume(snd[e[1]]) = 0
    /\ snd[e[1]].bGain = 0

\* the entries of list at the positions of keep, in the order of the list
Sub(list, keep) ==
    LET n == Cardinality(keep)
        f == CHOOSE g \in [1..n -> keep] :
                 \A a, b \in 1..n : a < b => g[a] < g[b]
    IN [k \in 1..n |-> list[f[k]]]

\* C20: updateFade(dt) on an instance with fade time F > 0 multiplies the
\* volume factor by (F - min(dt, F)) / F and takes min(dt, F) off F; when
\* that brings F to zero getRealVolume() is 0, and updateFade on an instance
\* with no fade time changes nothing; an updateSounds that is not throttled
\* keeps only entries that had not faded out, with their fade advanced by
\* the time of the frame, so that an entry that has faded out is gone from
\* the active-sound table after it
C20_FadeOutRetires ==
    /\ [](\A s \in TableSounds, dt \in Durations :
            LET F == snd[s].mFadeOutTime
                after == updateFade(snd[s], dt)
            IN /\ F > 0
                    => /\ after.mVolumeFactor * F
                            = snd[s].mVolumeFactor * (F - Min(dt, F))
                       /\ after.mFadeOutTime = F - Min(dt, F)
                       /\ after.mFadeOutTime = 0 => getRealVolume(after) = 0
               /\ F = 0 => after = snd[s])
    /\ [][UpdateRuns
            => \E dt \in Durations : \A ptr \in Ptrs :
                 \E keep \in SUBSET {i \in DOMAIN mActiveSounds[ptr] :
                                        ~Silent(mActiveSounds[ptr][i])} :
                   /\ Len(mActiveSounds'[ptr]) = Cardinality(keep)
                   /\ \A k \in DOMAIN mActiveSounds'[ptr] :
                        LET was == Sub(mActiveSounds[ptr], keep)[k]
                            now == mActiveSounds'[ptr][k]
                            faded == updateFade(snd[was[1]],
                                                mTimePassed + dt)
                        IN /\ now[2] = was[2]
                           /\ snd'[now[1]].mVolumeFactor
                                = faded.mVolumeFactor
                           /\ snd'[now[1]].mFadeOutTime = faded.mFadeOutTime
                           /\ snd'[now[1]].bGain = getRealVolume(faded)]_vars

\* an updateSounds has finished an instance whose source was playing at
\* gain zero, and the table is empty
C20_FadedOutRetired ==
    /\ pc = "idle"
    /\ Calls("updateSounds") # {}
    /\ \E f \in Calls("finishSound") :
         out[f].state = "Playing" /\ out[f].gain = 0
    /\ \A ptr \in Ptrs : mActiveSounds[ptr] = <<>>

----------------------------------------------------------------------------
(* The playlist *)

\* the tracks startRandomTitle draws from: those of mMusicToPlay, and all
\* the tracks of the playlist when it finds the list empty
DrawPool ==
    IF mCurrentPlaylist' \notin Playlists THEN {}
    ELSE IF mMusicToPlay[mCurrentPlaylist'] = <<>>
    THEN 1..Len(mMusicFiles(mCurrentPlaylist'))
    ELSE SeqToSet(mMusicToPlay[mCurrentPlaylist'])

\* startRandomTitle runs in this step
Draws == mMusicToPlay' # mMusicToPlay

\* the file of track t was handed to advanceMusic in this step: it is the
\* file streamMusicFull announces, or the successor of the music that
\* plays or is awaited
Advanced(t) ==
    \/ \E k \in DOMAIN out' :
         /\ out'[k].op = "Playing"
         /\ out'[k].buf = mMusicFiles(mCurrentPlaylist')[t]
    \/ mNextMusic' = mMusicFiles(mCurrentPlaylist')[t]

\* C21: startRandomTitle takes one track out of the list of those left and
\* hands its file to advanceMusic, refills the list only when it finds it
\* empty, so that as many draws as the playlist has tracks pick each track
\* once; and the track it picks is not the last played one when the list
\* holds another
C21_DrawsWithoutReplacement ==
    /\ [](\A pl \in Playlists :
            /\ Cardinality(SeqToSet(mMusicToPlay[pl])) = Len(mMusicToPlay[pl])
            /\ SeqToSet(mMusicToPlay[pl]) \subseteq 1..Len(mMusicFiles(pl)))
    /\ [][Draws
            => \E t \in DrawPool :
                 /\ SeqToSet(mMusicToPlay'[mCurrentPlaylist']) = DrawPool \ {t}
                 /\ Len(mMusicToPlay'[mCurrentPlaylist'])
                      = Cardinality(DrawPool) - 1
                 /\ Advanced(t)
                 /\ Cardinality(DrawPool) > 1
                      => mMusicFiles(mCurrentPlaylist')[t] # mLastPlayedMusic
       ]_vars

\* every track of the playlist has been drawn since the list was filled,
\* and the last of them is the music that plays
C21_AllDrawn ==
    /\ mCurrentPlaylist \in Playlists
    /\ mMusicToPlay[mCurrentPlaylist] = <<>>
    /\ mLastPlayedMusic \in SeqToSet(mMusicFiles(mCurrentPlaylist))
    /\ mMusic # NoSound /\ bStreamPlaying[mMusic]

----------------------------------------------------------------------------
(* The near-water sound *)

\* what the water updater can report: the sound of the water nearby and how
\* loud it is at the player's place
WaterIds == Store
WaterVolumes == {0, FullVolume \div 2, FullVolume}

Reports == [mId : WaterIds, mVolume : WaterVolumes]

\* the places of the near-water instance in the list of the empty pointer
nearWaterEntry(st) ==
    {i \in DOMAIN st.mActiveSounds[NoPtr] :
        st.mActiveSounds[NoPtr][i][1] = st.mNearWaterSound}

\* a getWaterSoundAction that restarts the sound in the same cell as well
getWaterSoundAction_anyCell(st, update, cell) ==
    IF st.mNearWaterSound # NoSound
    THEN IF update.mVolume = 0
         THEN [action |-> "FinishSound", sfx |-> NullBuf]
         ELSE LET sfx == lookupSound(st, update.mId)
                  soundIdChanged ==
                      \E i \in nearWaterEntry(st) :
                         st.mActiveSounds[NoPtr][i][2] # sfx
              IN IF soundIdChanged
                 THEN [action |-> "PlaySound", sfx |-> NullBuf]
                 ELSE IF sfx # NullBuf
                 THEN [action |-> "SetVolume", sfx |-> sfx]
                 ELSE [action |-> "DoNothing", sfx |-> NullBuf]
    ELSE IF update.mVolume > 0
    THEN [action |-> "PlaySound", sfx |-> NullBuf]
    ELSE [action |-> "DoNothing", sfx |-> NullBuf]

\* getWaterSoundAction(update, cell): [action, sfx]
getWaterSoundAction(st, update, cell) ==
    IF st.mNearWaterSound # NoSound
    THEN IF update.mVolume = 0
         THEN [action |-> "FinishSound", sfx |-> NullBuf]
         ELSE LET sfx == lookupSound(st, update.mId)
                  soundIdChanged ==
                      /\ st.mLastCell # cell
                      /\ \E i \in nearWaterEntry(st) :
                            st.mActiveSounds[NoPtr][i][2] # sfx
              IN IF soundIdChanged
                 THEN [action |-> "PlaySound", sfx |-> NullBuf]
                 ELSE IF sfx # NullBuf
                 THEN [action |-> "SetVolume", sfx |-> sfx]
                 ELSE [action |-> "DoNothing", sfx |-> NullBuf]
    ELSE IF update.mVolume > 0
    THEN [action |-> "PlaySound", sfx |-> NullBuf]
    ELSE [action |-> "DoNothing", sfx |-> NullBuf]

\* an updateWaterSound that does not keep the instance it has requested
updateWaterSound_forgetsSound(st) ==
    LET curcell == st.world.cell
        update == [mId |-> st.world.mId, mVolume |-> st.world.mVolume]
        r == getWaterSoundAction(st, update, curcell)
        near == st.mNearWaterSound
        s0 == Log(st, "getWaterSoundAction", near, r.action, TRUE)
        s1 == CASE r.action = "DoNothing" -> s0
                [] r.action = "SetVolume" ->
                     [s0 EXCEPT !.snd[near].mVolumeFactor = update.mVolume,
                                !.snd[near].mSfxVolume = mVolume(r.sfx)]
                [] r.action = "FinishSound" ->
                     [finishSound(s0, near) EXCEPT !.mNearWaterSound = NoSound]
                [] r.action = "PlaySound" ->
                     LET s2 == IF near # NoSound THEN finishSound(s0, near)
                               ELSE s0
                         p == playSound(s2, update.mId)
                     IN [p.st EXCEPT
                            !.snd[p.sound].mVolumeFactor = update.mVolume]
    IN [s1 EXCEPT !.mLastCell = curcell, !.world.last = update]

\* updateWaterSound; the report of the water updater and the player's cell
\* are those of world, which keeps the report as the last one made.  A recycled Sound stays in the pool, so a call through
\* a pointer whose instance was released acts on that slot
updateWaterSound(st) ==
    LET curcell == st.world.cell
        update == [mId |-> st.world.mId, mVolume |-> st.world.mVolume]
        r == getWaterSoundAction(st, update, curcell)
        near == st.mNearWaterSound
        s0 == Log(st, "getWaterSoundAction", near, r.action, TRUE)
        s1 == CASE r.action = "DoNothing" -> s0
                [] r.action = "SetVolume" ->
                     [s0 EXCEPT !.snd[near].mVolumeFactor = update.mVolume,
                                !.snd[near].mSfxVolume = mVolume(r.sfx)]
                [] r.action = "FinishSound" ->
                     [finishSound(s0, near) EXCEPT !.mNearWaterSound = NoSound]
                [] r.action = "PlaySound" ->
                     LET s2 == IF near # NoSound THEN finishSound(s0, near)
                               ELSE s0
                         p == playSound(s2, update.mId)
                     IN [p.st EXCEPT
                            !.mNearWaterSound = p.sound,
                            !.snd[p.sound].mVolumeFactor = update.mVolume]
    IN [s1 EXCEPT !.mLastCell = curcell, !.world.last = update]

\* update() while a game is running: updateSounds; the player's cell has no
\* region sound to play
FrameUpdateInGame == UpdateSoundsStep("water")

\* update() while a game is running: updateWaterSound
FrameUpdateWaterSound ==
    /\ pc = "water" /\ fault = ""
    /\ getWaterSoundAction(S, world, world.cell).action = "PlaySound"
         => CanRequest(S)
    /\ Commit([updateWaterSound(S) EXCEPT !.pc = "idle"])

\* the player moves, or the water nearby changes; updateWaterSound alone
\* reads the two, so the step is taken right before it
WorldChanges ==
    /\ pc = "water" /\ fault = ""
    /\ world.moves < MaxMoves
    /\ \E cell \in Cells, update \in Reports :
         /\ <<cell, update.mId, update.mVolume>>
                # <<world.cell, world.mId, world.mVolume>>
         /\ Commit([S EXCEPT !.world.moves = @ + 1,
                             !.world.cell = cell,
                             !.world.mId = update.mId,
                             !.world.mVolume = update.mVolume])

NextWater ==
    WorldChanges \/ FrameDrain \/ FrameUpdateInGame \/ FrameUpdateWaterSound
        \/ WorkerRun

SpecWater == Init /\ [][NextWater]_vars

----------------------------------------------------------------------------
(* Claims on the near-water sound *)

\* the step of update() that runs updateWaterSound, and the action it chose
WaterStep == pc = "water" /\ pc' = "idle"
WaterAction == out'[1].buf

\* the water updater reports what it reported at the last updateWaterSound,
\* a sound that can be heard, and the player is in the cell of that call
SameReport ==
    /\ world.last = [mId |-> world.mId, mVolume |-> world.mVolume]
    /\ world.mVolume # 0
    /\ mLastCell = world.cell

ReportedBuffer ==
    IF world.mId \in mBufferNameMap /\ mHandle[world.mId]
    THEN world.mId ELSE NullBuf

\* the near-water instance plays another buffer than the reported one
PlaysOtherBuffer ==
    \E i \in DOMAIN mActiveSounds[NoPtr] :
       /\ mActiveSounds[NoPtr][i][1] = mNearWaterSound
       /\ mActiveSounds[NoPtr][i][2] # ReportedBuffer

\* the decision table
WaterTable ==
    IF mNearWaterSound # NoSound
    THEN CASE world.mVolume = 0 -> "FinishSound"
           [] world.mVolume # 0 /\ world.cell # mLastCell /\ PlaysOtherBuffer
                -> "PlaySound"
           [] OTHER -> IF ReportedBuffer # NullBuf THEN "SetVolume"
                       ELSE "DoNothing"
    ELSE IF world.mVolume > 0 THEN "PlaySound" ELSE "DoNothing"

\* C30: updateWaterSound acts on the answer of the decision table, and after
\* FinishSound the near-water sound is null
C30_WaterSoundDecisionTable ==
    [][WaterStep
         => /\ WaterAction = WaterTable
            /\ WaterAction = "FinishSound" => mNearWaterSound' = NoSound]_vars

\* C30 witness: the near-water sound was restarted in another cell
C30_RestartedInOtherCell ==
    /\ pc = "idle" /\ out # <<>>
    /\ out[1].op = "getWaterSoundAction" /\ out[1].buf = "PlaySound"
    /\ out[1].state = "Playing"
    /\ mNearWaterSound # NoSound

----------------------------------------------------------------------------
(* Decode exceptions *)

\* the decoder of the work item throws when it opens the file
DecodeFails(item) ==
    \/ item.kind = "voice" /\ ~loadVoice(item.arg)
    \/ item.kind = "music" /\ ~canOpen(item.arg)

\* the work items whose function the worker has run to its end in this step
ItemsRun ==
    IF \E w \in Items : wItems'[w].status = "running" THEN {}
    ELSE IF \E w \in Items : wItems[w].status = "running"
    THEN {wItems[w] : w \in {v \in Items : wItems[v].status = "running"}}
    ELSE IF Len(workQueue') < Len(workQueue)
    THEN {wItems[Head(workQueue)]}
    ELSE {}

\* C23: an exception of the decoder's open never leaves the work item, for a
\* voice line and for music: the work item ends, no decoder is cached for
\* the file and nothing is played
C23_DecodeExceptionIsCaught ==
    /\ [](fault # "uncaught exception")
    /\ [][\A item \in ItemsRun :
            DecodeFails(item) /\ ~returnsEarly(S, item)
               => /\ fault' = ""
                  /\ mVoiceDecoders' = mVoiceDecoders
                  /\ mMusicDecoders' = mMusicDecoders
                  /\ out' = <<>>]_vars

----------------------------------------------------------------------------
(* Requests are asynchronous *)

\* the caller of playSound3D sets a volume factor and a fade-out time on the
\* instance the call has just handed to it
CallSetParams ==
    /\ Idle
    /\ \E k \in DOMAIN out, duration \in FadeTimes :
         \E sound \in {out[k].snd} :
           /\ out[k].op \in {"return.RemoveAtDistance", "return.Normal"}
           /\ out[k].ok
           /\ snd[sound].state = "Loading"
           /\ snd[sound].mFadeOutTime = 0
           /\ Commit([S EXCEPT
                        !.snd[sound].mVolumeFactor = FullVolume \div 2,
                        !.snd[sound].mFadeOutTime = duration])

\* requests whose callers set the volume and the fade-out of the instance
NextParams ==
    \/ CallPlaySound3DOne
    \/ EntityMoves
    \/ CallSetParams
    \/ FrameDrain
    \/ FrameUpdateSounds
    \/ WorkerRun

SpecParams == Init /\ [][NextParams]_vars

\* what the caller has set on the instance of a pending request, with the
\* buffer it asks for
PendingParams(ptr) ==
    LET mine == SelectSeq(mLoadingSounds, LAMBDA r : r.mPtr = ptr)
    IN [i \in DOMAIN mine |->
          [mVolumeFactor |-> snd[mine[i].mSound].mVolumeFactor,
           mFadeOutTime |-> snd[mine[i].mSound].mFadeOutTime,
           sfx |-> mine[i].mSoundId]]

\* the same of the entries the step has added to the list of ptr
CommittedParams(ptr) ==
    LET now == mActiveSounds'[ptr]
        n == Len(now) - Len(mActiveSounds[ptr])
    IN [i \in 1..n |->
          [mVolumeFactor |-> snd'[now[Len(mActiveSounds[ptr]) + i][1]]
                                 .mVolumeFactor,
           mFadeOutTime |-> snd'[now[Len(mActiveSounds[ptr]) + i][1]]
                                .mFadeOutTime,
           sfx |-> now[Len(mActiveSounds[ptr]) + i][2]]]

\* the entries the step has added carry the volume of their buffer and, if
\* they are 3D, its distances
CommitOverwrites(ptr) ==
    \A i \in DOMAIN mActiveSounds'[ptr] :
       i > Len(mActiveSounds[ptr])
          => LET e == mActiveSounds'[ptr][i]
             IN /\ snd'[e[1]].state = "Playing"
                /\ snd'[e[1]].mSfxVolume = mVolume(e[2])
                /\ snd'[e[1]].mMinDistance
                     = IF snd'[e[1]].is3D THEN mMinDist(e[2]) ELSE 0
                /\ snd'[e[1]].mMaxDistance
                     = IF snd'[e[1]].is3D THEN mMaxDist(e[2]) ELSE 0

\* the step is a call of playSound3D, and what it found in the work queue
RequestStep == Returns' # {}
ItemsDone(items) == Cardinality({w \in Items : items[w].status = "done"})

\* the call has returned an instance in state Loading with one new pending
\* request and one new work item, and has waited for no work item
ReturnsLoading(k) ==
    /\ out'[k].ok
    /\ snd'[out'[k].snd].state = "Loading"
    /\ Len(mLoadingSounds') = Len(mLoadingSounds) + 1
    /\ mLoadingSounds'[Len(mLoadingSounds')].mSound = out'[k].snd
    /\ Len(workQueue') = Len(workQueue) + 1
    /\ ItemsDone(wItems') = ItemsDone(wItems)
    /\ mLoadedSoundBuffers' = mLoadedSoundBuffers

\* the drain commits pending instances with the volume factor and the
\* fade-out time their callers have set
DrainKeepsParams ==
    pc' = "update" /\ pc # "update"
       => \A ptr \in Ptrs :
            /\ Len(mActiveSounds'[ptr]) >= Len(mActiveSounds[ptr])
            /\ \E keep \in SUBSET DOMAIN PendingParams(ptr) :
                  CommittedParams(ptr) = Sub(PendingParams(ptr), keep)
            /\ CommitOverwrites(ptr)

\* C24, as the spec states it: every playSound3D call on an initialised
\* backend returns an instance in state Loading with exactly one new pending
\* request, without waiting for the load task, and the drain commits the
\* instance with the volume factor and the fade-out time the caller has set
C24_EveryCallReturnsLoading ==
    /\ [][\A k \in Returns' : ReturnsLoading(k)]_vars
    /\ [][DrainKeepsParams]_vars

\* C24, amended: a playSound3D call on an initialised backend that is not
\* culled by distance returns an instance in state Loading with exactly one
\* new pending request, without waiting for the load task; a culled call
\* returns no instance and adds no request; the drain commits an instance
\* with the volume factor and the fade-out time the caller has set, and
\* overwrites the sfx volume and, for a 3D sound, the distances
C24_UnculledCallReturnsLoading ==
    /\ [][\A k \in Returns' :
            IF out'[k].op = "return.RemoveAtDistance" /\ Beyond(out'[k].buf)
            THEN /\ ~out'[k].ok
                 /\ mLoadingSounds' = mLoadingSounds
            ELSE ReturnsLoading(k)]_vars
    /\ [][DrainKeepsParams]_vars

\* C24 witness: the drain has committed an instance whose caller had set
\* half the volume and a fade-out
C24_CommittedWithCallerParams ==
    /\ pc = "update"
    /\ \E k \in DOMAIN out :
         /\ out[k].op = "playSound3D" /\ out[k].ok
         /\ snd[out[k].snd].state = "Playing"
         /\ snd[out[k].snd].mVolumeFactor = FullVolume \div 2
         /\ snd[out[k].snd].mFadeOutTime \in FadeTimes
         /\ snd[out[k].snd].mSfxVolume = mVolume(out[k].buf)
         /\ snd[out[k].snd].mMaxDistance = mMaxDist(out[k].buf)

----------------------------------------------------------------------------
(* Stopping sounds *)

\* the stop calls, each with a record of the call and its arguments
StopSoundCall ==
    /\ Idle
    /\ \E sound \in OwnedSounds(S) :
         Commit(stopSound(Log(S, "call.stopSound", sound, "", TRUE), sound))

StopSound3DCall ==
    /\ Idle
    /\ \E ptr \in Ptrs :
         Commit(stopSound3D(Log(S, "call.stopSound3D", NoSound, ptr, TRUE),
                            ptr))

StopSound3DIdCall ==
    /\ Idle
    /\ \E ptr \in Ptrs, soundId \in RequestIds :
         Commit(stopSound3DId(
                    Log(Log(S, "call.stopSound3DId", NoSound, ptr, TRUE),
                        "call.soundId", NoSound, soundId, TRUE),
                    ptr, soundId))

StopSoundCellCall ==
    /\ Idle
    /\ \E cell \in Cells :
         Commit(stopSoundCell(Log(S, "call.stopSoundCell", NoSound, cell,
                                  TRUE),
                              cell))

NextStop ==
    \/ CallPlaySound3D
    \/ StopSoundCall
    \/ StopSound3DCall
    \/ StopSound3DIdCall
    \/ StopSoundCellCall
    \/ FrameDrain
    \/ FrameUpdateSounds
    \/ WorkerRun

SpecStop == Init /\ [][NextStop]_vars

\* the pending requests and the table entries, by their place
PendingAt == DOMAIN mLoadingSounds
ActiveAt == UNION {{<<ptr, i>> : i \in DOMAIN mActiveSounds[ptr]} : ptr \in Ptrs}

\* the step cancels the pending requests of cancelled, finishes the table
\* entries of finished, and leaves the other requests and entries as they
\* are
StopsExactly(cancelled, finished) ==
    /\ mLoadingSounds' = mLoadingSounds
    /\ mActiveSounds' = mActiveSounds
    /\ \A i \in PendingAt :
         /\ snd'[mLoadingSounds[i].mSound].state
              = IF i \in cancelled THEN "LoadCancelled"
                ELSE snd[mLoadingSounds[i].mSound].state
         /\ bPlaying'[mLoadingSounds[i].mSound]
              = bPlaying[mLoadingSounds[i].mSound]
    /\ \A e \in ActiveAt :
         LET sound == mActiveSounds[e[1]][e[2]][1]
         IN /\ snd'[sound] = snd[sound]
            /\ bPlaying'[sound] = IF e \in finished THEN FALSE
                                  ELSE bPlaying[sound]
    /\ Cardinality({k \in DOMAIN out' : out'[k].op = "cancelLoading"})
         = Cardinality(cancelled)
    /\ Cardinality({k \in DOMAIN out' : out'[k].op = "finishSound"})
         = Cardinality(finished)
    /\ UNCHANGED <<mUses, mUnusedBuffers, mHandle, mBufferCacheSize,
                   wItems, workQueue>>

\* the step is the stop call op
StopCalled(op) == out' # <<>> /\ out'[1].op = op

\* C25: stopSound(Sound*) finishes a Playing instance and cancels any other;
\* stopSound3D(ptr), stopSound3D(ptr, id) and stopSound(cell) cancel the
\* pending requests that match the entity, the entity and the lower-cased
\* id, or a non-player entity of the cell, finish the matching entries of
\* the table, and leave the other requests and entries unchanged
C25_StopsMatchingOnly ==
    /\ [][StopCalled("call.stopSound")
            => StopsExactly(
                 {i \in PendingAt : /\ mLoadingSounds[i].mSound = out'[1].snd
                                    /\ out'[1].state # "Playing"},
                 {e \in ActiveAt :
                     /\ mActiveSounds[e[1]][e[2]][1] = out'[1].snd
                     /\ out'[1].state = "Playing"})]_vars
    /\ [][StopCalled("call.stopSound3D")
            => StopsExactly(
                 {i \in PendingAt : mLoadingSounds[i].mPtr = out'[1].buf},
                 {e \in ActiveAt : e[1] = out'[1].buf})]_vars
    /\ [][StopCalled("call.stopSound3DId")
            => StopsExactly(
                 {i \in PendingAt :
                     /\ mLoadingSounds[i].mPtr = out'[1].buf
                     /\ mLoadingSounds[i].mSoundId = LowerCase(out'[2].buf)},
                 {e \in ActiveAt :
                     /\ e[1] = out'[1].buf
                     /\ mActiveSounds[e[1]][e[2]][2]
                          = LowerCase(out'[2].buf)})]_vars
    /\ [][StopCalled("call.stopSoundCell")
            => StopsExactly(
                 {i \in PendingAt :
                     /\ mLoadingSounds[i].mPtr \notin {NoPtr, getPlayer}
                     /\ getCell(mLoadingSounds[i].mPtr) = out'[1].buf},
                 {e \in ActiveAt :
                     /\ e[1] \notin {NoPtr, getPlayer}
                     /\ getCell(e[1]) = out'[1].buf})]_vars

----------------------------------------------------------------------------
(* A commit the backend rejects *)

\* the play calls of the drain the backend has accepted, and their buffers
Accepted == {k \in PlayCalls : out[k].ok}
AcceptedBuffers == {out[k].buf : k \in Accepted}

\* how often buffer b is in the pool
InPool(pool, b) == Cardinality({i \in DOMAIN pool : pool[i] = b})

\* the number of entries of the active-sound table
RECURSIVE TableSize(_, _)
TableSize(table, order) ==
    IF order = <<>> THEN 0
    ELSE Len(table[Head(order)]) + TableSize(table, Tail(order))

\* C26: a request whose commit the backend rejects is discarded: its
\* instance does not become Playing, the table gains an entry and a
\* use-count goes up only for an accepted commit, the pool keeps the buffer
\* of a rejected commit, and every request the drain has found a result for
\* is gone from mLoadingSounds
C26_RejectedCommitDiscards ==
    [][DrainRuns =>
         /\ Cardinality(Calls("setPlaying")') = Cardinality(Accepted')
         /\ TableSize(mActiveSounds', PtrOrder)
              = TableSize(mActiveSounds, PtrOrder) + Cardinality(Accepted')
         /\ \A b \in Store :
              mUses'[b] = mUses[b]
                 + Cardinality({k \in Accepted' : out'[k].buf = b})
         /\ \A k \in PlayCalls' \ Accepted' :
              out'[k].buf \notin AcceptedBuffers'
                 => InPool(mUnusedBuffers', out'[k].buf)
                      = InPool(mUnusedBuffers, out'[k].buf)
         /\ Accepted' = {}
              => /\ mUnusedBuffers' = mUnusedBuffers
                 /\ TableBuffers' = TableBuffers
         /\ \A s \in Sounds : snd'[s].state = "Playing" => s \in TableSounds'
         /\ Len(mLoadingSounds') = Cardinality(Unanswered)]_vars

\* C26 witness: the backend has rejected the only commit of the drain; the
\* request is gone, the table is empty and the buffer is in the pool unused
C26_RejectedAndDropped ==
    /\ pc = "update"
    /\ \E k \in PlayCalls :
         /\ ~out[k].ok
         /\ mUses[out[k].buf] = 0
         /\ InPool(mUnusedBuffers, out[k].buf) = 1
    /\ Accepted = {}
    /\ mLoadingSounds = <<>>
    /\ TableSize(mActiveSounds, PtrOrder) = 0
    /\ \A s \in Sounds : snd[s].state # "Playing"

----------------------------------------------------------------------------
(* Eviction *)

\* the buffers the last step has unloaded, in the order of the calls, and
\* the bytes the first n of them have freed
Unloaded == SelectSeq(out, LAMBDA c : c.op = "unloadSound")
RECURSIVE Freed(_, _)
Freed(calls, n) ==
    IF n = 0 THEN 0
    ELSE (IF calls[n].res THEN BufSize(calls[n].buf) ELSE 0)
            + Freed(calls, n - 1)

\* C27: a loadSoundSync that has loaded a buffer unloads nothing if the
\* total with the new buffer is no more than the maximum; otherwise it
\* unloads buffers one at a time from the back of the pool and stops at the
\* first point where the total is no more than the minimum or the pool is
\* empty; the buffer it has loaded is not among the unloaded ones
C27_EvictionHysteresis ==
    [][\A i \in Calls("loadSound")' :
         out'[i].ok
           => LET total == mBufferCacheSize + BufSize(out'[i].buf)
                  n == Len(Unloaded')
              IN /\ total <= mBufferCacheMax => n = 0
                 /\ total > mBufferCacheMax
                      => /\ \A j \in 1..n :
                              Unloaded'[j].buf
                                 = mUnusedBuffers[Len(mUnusedBuffers) - j + 1]
                         /\ n <= Len(mUnusedBuffers)
                         /\ \A j \in 0..(n - 1) :
                              j > 0 => total - Freed(Unloaded', j)
                                          > mBufferCacheMin
                         /\ \/ total - Freed(Unloaded', n) <= mBufferCacheMin
                            \/ n = Len(mUnusedBuffers)
                         /\ mUnusedBuffers # <<>> => n >= 1
                         /\ mBufferCacheSize' = total - Freed(Unloaded', n)
                 /\ \A j \in 1..n : Unloaded'[j].buf # out'[i].buf
                 /\ mHandle'[out'[i].buf]]_vars

----------------------------------------------------------------------------
(* The cache total *)

\* C28: the cache total is the sum of the sizes the backend has reported
\* for the buffers whose handle is not null; it grows by the size of the
\* buffer at a load that succeeds, shrinks by the freed size at an unload
\* and changes in no other step
C28_CacheTotalIsExact ==
    /\ [](mBufferCacheSize = SizeOf(Resident))
    /\ [][mBufferCacheSize' - mBufferCacheSize
            = SizeOf({out'[i].buf : i \in {k \in Calls("loadSound")' :
                                              out'[k].ok}})
                 - Freed(Unloaded', Len(Unloaded'))]_vars

\* C28 witness: a load has evicted a buffer and the total is the size of the
\* resident buffers
C28_TotalAfterEviction ==
    /\ \E i \in Calls("loadSound") : out[i].ok /\ mHandle[out[i].buf]
    /\ Len(Unloaded) = 1
    /\ Resident # {}
    /\ mBufferCacheSize = SizeOf(Resident)

----------------------------------------------------------------------------
(* Music that follows music *)

\* advanceMusic is called while isMusicPlaying holds: a call of the frame
\* thread between two frames that is no stream coming to its end and no step
\* of the worker
AdvanceCall ==
    /\ pc = "idle" /\ pc' = "idle"
    /\ isMusicPlaying(S)
    /\ workQueue' = workQueue /\ bStreamPlaying' = bStreamPlaying
    /\ vars' # vars

\* the call has given the current stream its fade-out and stored the file
FadesAndStores ==
    /\ fault' = ""
    /\ mNextMusic' # ""
    /\ mMusic' # NoSound
    /\ strm'[mMusic'].mFadeOutTime = MusicFadeOut
    /\ mWaitingMusic' = mWaitingMusic

\* an updateMusic with a successor stored: nothing is requested while the
\* volume of the current stream is above 0, and at 0 one request for the
\* successor is submitted and the slot cleared
UpdateMusicStep ==
    /\ fault' = "" /\ mMusic' # NoSound
    /\ IF getRealVolume(strm'[mMusic']) > 0
       THEN /\ mNextMusic' = mNextMusic
            /\ mWaitingMusic' = mWaitingMusic
            /\ Calls("Playing")' = {}
       ELSE /\ mNextMusic' = ""
            /\ Len(mWaitingMusic') = Len(mWaitingMusic) + 1
            /\ mWaitingMusic'[Len(mWaitingMusic')].mFileName = mNextMusic
            /\ Cardinality(Calls("Playing")') = 1

\* the file is the music that plays: the last one requested, committed
IsCurrentMusic(f) ==
    /\ mMusic # NoSound
    /\ mLastPlayedMusic = f
    /\ mWaitingMusic = <<>>
    /\ strm[mMusic].state = "Playing"

MusicPaths == {musicPath(filename) : filename \in MusicNames}

\* C29: advanceMusic(f) while music is playing gives the current stream a
\* fade-out of one second and stores f as the successor; no updateMusic
\* requests the successor while the volume of the current stream is above 0,
\* the first one at which it is 0 or less submits exactly one music request
\* for f and clears the slot; and while update() is called again and again
\* and no other file is asked for, f becomes the current music stream
C29_SuccessorFollows ==
    /\ [][AdvanceCall => FadesAndStores]_vars
    /\ [][UpdateRuns /\ mNextMusic # "" => UpdateMusicStep]_vars
    /\ \A f \in MusicPaths :
          (mNextMusic = f) ~> (IsCurrentMusic(f) \/ mNextMusic \notin {"", f})

----------------------------------------------------------------------------
(* Buffers between their load and their commit *)

\* C31: every buffer that playLoadedSounds passes to the backend's playSound
\* or playSound3D is resident at the call: a buffer that is loaded and not
\* yet committed is never unloaded by the eviction of a later load
C31_CommittedBufferIsResident ==
    \A i \in DOMAIN out : out[i].op \in PlayOps => out[i].res

----------------------------------------------------------------------------
(* The successor slot and the current stream *)

\* C32: whenever the successor slot mNextMusic is not empty the current music
\* stream mMusic is not null, and neither advanceMusic nor updateMusic
\* dereferences a null mMusic
C32_SuccessorHasCurrent ==
    /\ mNextMusic # "" => mMusic # NoSound
    /\ fault # "null mMusic"

----------------------------------------------------------------------------
(* The references to the water sounds *)

\* C33: a non-null mNearWaterSound or mUnderwaterSound refers to an instance
\* that is pending in mLoadingSounds or present in the active-sound table:
\* the reference is reset when the drain discards the instance or
\* updateSounds retires it
C33_WaterSoundIsOwned ==
    /\ mNearWaterSound # NoSound => mNearWaterSound \in OwnedSounds(S)
    /\ mUnderwaterSound # NoSound => mUnderwaterSound \in OwnedSounds(S)

----------------------------------------------------------------------------
(* The pass of updateSounds over the track list *)

\* the positions of the tracks the backend reports as playing
PlayingTracks ==
    {k \in DOMAIN mActiveTracks : bStreamPlaying[mActiveTracks[k]]}

\* every track of the list has been looked at: the finished ones are retired
\* and the playing ones, and only they, are kept
EachTrackExamined ==
    /\ Len(mActiveTracks') = Cardinality(PlayingTracks)
    /\ \A k \in DOMAIN mActiveTracks' : bStreamPlaying'[mActiveTracks'[k]]

\* C34: an updateSounds pass that the update interval does not skip examines
\* each stream of mActiveTracks exactly once, retiring it if the backend
\* reports it not playing, and trkiter never moves past the end of the list
C34_TracksExaminedOnce ==
    /\ [](fault # "trkiter past end")
    /\ [][UpdateRuns => EachTrackExamined]_vars

----------------------------------------------------------------------------
(* Blockers and the sound types they pause *)

\* the types some blocker has paused
PausedByBlockers == UNION {mPausedSoundTypes[blocker] : blocker \in Blockers}

\* C35: with an initialised backend, after every pauseSounds and resumeSounds
\* call the sound types paused at the backend are the union over the
\* blockers of mPausedSoundTypes[blocker]
C35_PausedIsUnionOfBlockers == bPausedTypes = PausedByBlockers

\* one blocker has been resumed while another still pauses a type both had
\* paused
C35_ResumedUnderOtherBlocker ==
    /\ Calls("resumeSounds") # {} /\ Calls("pauseSounds") = {}
    /\ \E blocker \in Blockers :
         /\ mPausedSoundTypes[blocker] = {}
         /\ \E other \in Blockers \ {blocker} :
              /\ mPausedSoundTypes[other] # {}
              /\ mPausedSoundTypes[other] \subseteq bPausedTypes

----------------------------------------------------------------------------
(* The device and the playback flag *)

\* C36: after every pausePlayback, resumePlayback, clear and update the
\* backend's device is paused exactly when mPlaybackPaused is true, and
\* pauseActiveDevice and resumeActiveDevice are called only where the flag
\* changes to true and to false
C36_DevicePausedIffFlag ==
    /\ bDevicePaused <=> mPlaybackPaused
    /\ Calls("pauseActiveDevice") # {} => mPlaybackPaused
    /\ Calls("resumeActiveDevice") # {} => ~mPlaybackPaused

----------------------------------------------------------------------------
(* An entity changes its Ptr *)

\* the requests of a ledger for ptr
KeyedBy(ledger, ptr) == {k \in DOMAIN ledger : ledger[k].mPtr = ptr}

\* nothing in the tables and the ledgers refers to ptr
NothingRefersTo(ptr) ==
    /\ mActiveSounds[ptr] = <<>>
    /\ mActiveSaySounds[ptr] = NoSound
    /\ KeyedBy(mWaitingVoice, ptr) = {}
    /\ KeyedBy(mActiveWaitingVoice, ptr) = {}
    /\ KeyedBy(mLoadingSounds, ptr) = {}

\* the number of voice streams in mActiveSaySounds
SayStreams == Cardinality({p \in AllPtrs : mActiveSaySounds[p] # NoSound})

\* C37: after updatePtr(old, updated) no entry of the active-sound table,
\* the voice table, mWaitingVoice, mActiveWaitingVoice or mLoadingSounds
\* refers to old, no active instance and no pending request is lost, and the
\* use-count of every buffer is the number of its entries in the table
C37_UpdatePtrRekeysAll ==
    [][Calls("updatePtr")' # {}
          => /\ \A old \in AllPtrs :
                   (\E i \in Calls("updatePtr")' : out'[i].buf = old)
                       => NothingRefersTo(old)'
             /\ TableSize(mActiveSounds', PtrOrder)
                  = TableSize(mActiveSounds, PtrOrder)
             /\ SayStreams' = SayStreams
             /\ Len(mWaitingVoice') = Len(mWaitingVoice)
             /\ Len(mActiveWaitingVoice') = Len(mActiveWaitingVoice)
             /\ Len(mLoadingSounds') = Len(mLoadingSounds)
             /\ \A b \in Store : mUses'[b] = Cardinality(EntriesOf(b))']_vars

----------------------------------------------------------------------------
(* The voice lines of one entity *)

\* the voice requests in the order the drain finds them, and the files of
\* those for ptr
VoiceRequests == mActiveWaitingVoice \o mWaitingVoice

FilesFor(ptr) ==
    LET reqs == SelectSeq(VoiceRequests, LAMBDA v : v.mPtr = ptr)
    IN [k \in DOMAIN reqs |-> reqs[k].mFileName]

\* the files the last step has handed to playVoice for ptr, in call order
VoicePlayed(ptr) ==
    LET calls == SelectSeq([k \in DOMAIN out |-> k],
                           LAMBDA k : /\ out[k].op = "playVoice"
                                      /\ out[k + 1].buf = ptr)
    IN [k \in DOMAIN calls |-> out[calls[k]].buf]

\* C38: each entity has at most one active voice stream, and when two voice
\* lines with different files are pending for an entity and the decoders of
\* both are created, the drain serves the later one: the last voice it plays
\* for the entity is the later request, never the earlier in its place
C38_LaterVoiceWins ==
    [][DrainRuns
          => \A ptr \in Entities :
               LET files == FilesFor(ptr)
               IN (/\ Len(files) = 2 /\ files[1] # files[2]
                   /\ (\A k \in DOMAIN files : files[k] \in mVoiceDecoders))
                  => /\ VoicePlayed(ptr)' # <<>>
                     /\ VoicePlayed(ptr)'[Len(VoicePlayed(ptr)')]
                          = files[2]]_vars

----------------------------------------------------------------------------
(* A rejected commit and the instance that was playing *)

\* C39: a drain that commits no instance of buffer B for entity E, because
\* the backend rejected every request of B for E it tried, leaves the
\* instances of B for E that were playing as they were: playLoadedSounds
\* finishes the earlier instance only when the new one is committed
C39_RejectedCommitKeepsPrior ==
    [][DrainRuns
          => \A ptr \in Ptrs, b \in Store :
                CommittedAt(ptr, b)' = {}
                    => Cardinality(PlayingAt(ptr, b)')
                         = Cardinality(PlayingAt(ptr, b))]_vars

----------------------------------------------------------------------------
(* What clear() leaves behind *)

\* clear() returns in this step
ClearDone == pc = "clear" /\ pc' = "idle"

\* no request is pending in a ledger
NothingPending ==
    /\ mWaitingVoice = <<>> /\ mActiveWaitingVoice = <<>>
    /\ mWaitingMusic = <<>>
    /\ mLoadingSounds = <<>>

\* no table holds an instance and no buffer is in use
NothingActive ==
    /\ \A ptr \in AllPtrs :
         mActiveSounds[ptr] = <<>> /\ mActiveSaySounds[ptr] = NoSound
    /\ mActiveTracks = <<>>
    /\ \A b \in Store : mUses[b] = 0

\* no result of a task is left in a cache for a later request to take
NothingCached ==
    /\ mLoadedSoundBuffers = NoBuffers
    /\ mVoiceDecoders = {}
    /\ mMusicDecoders = {}

\* C40: when clear() returns the ledgers, the active-sound table, the voice
\* tables and the track list are empty and every use-count is 0; no request
\* made before is left to be committed later, and no result a task wrote to
\* a cache before is left for a request made later
C40_ClearLeavesNothing ==
    [][ClearDone => NothingPending' /\ NothingActive' /\ NothingCached']_vars

====
